---- MODULE Spec2Model ----
(***************************************************************************)
(* Factor computation and outlier detection engine                         *)
(* (src/src/factors/calculator.py): FactorCalculator.identify_outliers and *)
(* FactorCalculator.calculate_composite_score as a state machine.          *)
(*                                                                         *)
(* Python values are encoded as follows.                                   *)
(*   Optional x      : <<>> for None, <<v>> for the value v                *)
(*   a float         : <<v>> for the number v, <<0, 0>> for NaN           *)
(*   a Z threshold   : an integer, in halves                               *)
(*   composite_score : in a batch an integer (the flags depend on ratios   *)
(*                     only) or None; NaN scores are not drawn in batches  *)
(*   a dict of a batch: a record; the two keys identify_outliers adds are  *)
(*                     strings, "absent" when the dict has no such key     *)
(*   a factor dict   : a function from its keys to Optional numbers, in    *)
(*                     thousandths; weights are in hundredths              *)
(* Dicts are objects: the heap maps object ids to dict contents, lists are *)
(* sequences of ids, so that copy() and aliasing are visible.              *)
(***************************************************************************)
EXTENDS Integers, Sequences, FiniteSets, TLC

\* ------------------------------------------------------------------ bounds
MaxLen == 4
MaxCandles == 5
LongMin == 20
MaxLong == 27
MaxAssets == 4
MaxCalls == 5
MaxOps == 2

\* --------------------------------------------------------------- constants
outlier_z_score == 2
top_n_outliers == 10
bottom_n_outliers == 10
multiplier == 2

None == <<>>
Some(v) == <<v>>
IsNone(o) == o = <<>>
Val(o) == o[1]

\* float("nan"), as the storage layer reads a NULL of a DOUBLE column
NaN == <<0, 0>>
IsNaN(o) == Len(o) = 2

\* Python truthiness of an Optional[int] / Optional[float]: None and 0 are
\* falsy, NaN is truthy.
Truthy(o) == o # <<>> /\ (IsNaN(o) \/ o[1] # 0)

\* `a or b` on an optional number a and a number b.
OrElse(o, d) == IF Truthy(o) THEN o[1] ELSE d

ScoreVals == {-5, 0, 5}
OptScores == {None} \cup {Some(v) : v \in ScoreVals}
NArgs == {None, Some(0), Some(1), Some(2)}
ZArgs == {None, Some(1), Some(2)}

\* A dict of the batch as the callers build it: test-style dicts carry only
\* symbol and composite_score, pipeline dicts are pre-initialised with
\* is_outlier = False and outlier_type = None.
ScoreDict(sym, cs, pre) ==
    [symbol |-> sym, composite_score |-> cs,
     is_outlier |-> IF pre THEN "False" ELSE "absent",
     outlier_type |-> IF pre THEN "None" ELSE "absent"]

\* the tenths of a second between two calls of wait_if_needed
Gaps == {0, 1, 5, 10, 11}

\* the symbol asked for
Symbol == "BTCUSDT"

\* the outcomes of the n requests an operation can make, in order
Plans(n) == [1..n -> {"ok", "bad", "raise"}]

Batches == UNION {[1..n -> OptScores] : n \in 0..MaxLen}

VARIABLES
    op,         \* the method the caller calls
    pc,         \* "idle" before the call, "done" after it returned
    thresholds,     \* self.config.thresholds
    factor_weights, \* self.factor_weights
    input,      \* the caller's dicts as they were when the call was made
    scores,     \* the caller's list: object ids of its dicts
    heap,       \* object id -> dict contents
    args,       \* the arguments of the identify_outliers call
    results,    \* the returned list: object ids
    stat,       \* the dicts of results as the IQR / Z-score step left them
    method,     \* the path the call took
    factors,    \* the factor dicts passed to calculate_composite_score
    composite,  \* its return value, a float, in units of 1/200000
    snapshot,   \* the asset's latest market_data row as the pipeline reads it
    candles,    \* the candle series passed to a factor method or indicator,
                \* ascending by timestamp
    params,     \* the other parameters of that call
    ret,        \* what it returned
    rounding,   \* the sign of the rounding error of the float mean of a
                \* batch of equal scores: float(sum)/n minus the score
    first,      \* the first call made on this calculator and what it
                \* returned, Optional; .others: a call with other inputs
                \* has returned since
    universe_df,     \* run_hourly: the assets of the universe, in order
    cursor,          \* the asset the scoring loop is at
    now,             \* the clock now_utc4() reads
    batch_timestamp, \* Optional: the timestamp of this run's records
    factor_scores,   \* the run's list of score records
    detector_calls,  \* the calls of identify_outliers made by the run:
                     \* the list each was given and where the loop stood
    stored,          \* the tables save_factor_scores wrote, in order
    telegram_summaries, \* the rows of the telegram_summaries table, oldest
                        \* first: summary_hash and sent
    telegram_sent,   \* the summaries passed to TelegramBot.send_message
    max_requests,    \* RateLimiter: self.max_requests
    time_window,     \* self.time_window, in tenths of a second
    request_times,   \* self.request_times, oldest first
    admitted,        \* the times at which wait_if_needed returned, in order
    base_url,        \* BinanceAdapter: self.base_url
    futures_symbols_cache, \* self._futures_symbols_cache, None while not set
    entered,         \* base_url when each operation was called, in order
    requested,       \* the base_url of each request of the last operation
    raised,          \* whether the last operation raised
    config,          \* TelegramBot: self.config (enabled, bot_token, chat_id)
    json_error_caught, \* whether the installed requests raises its own
                     \* JSONDecodeError, a RequestException, from json()
    parse_mode,      \* the parse_mode argument of the last send_message
    replies,         \* the outcomes of the requests of the last send_message
    http_requests,   \* the parse_mode of each request it made, in order
    returned         \* what it returned: "True", "False", or "raised"

vars == <<op, pc, thresholds, factor_weights, input, scores, heap, args,
          results, stat, method, factors, composite, snapshot, candles, params, ret, rounding,
          first, universe_df, cursor, now, batch_timestamp, factor_scores,
          detector_calls, stored, telegram_summaries, telegram_sent,
          max_requests, time_window, request_times, admitted,
          base_url, futures_symbols_cache, entered, requested, raised,
          config, json_error_caught, parse_mode, replies, http_requests,
          returned>>

\* the variables of a run of the pipeline, and those of single calls
runVars == <<universe_df, cursor, now, batch_timestamp, factor_scores,
             detector_calls, stored, telegram_summaries, telegram_sent>>
limiterVars == <<max_requests, time_window, request_times, admitted>>
binanceVars == <<base_url, futures_symbols_cache, entered, requested, raised>>
telegramVars == <<config, json_error_caught, parse_mode, replies,
                  http_requests, returned>>
adapterVars == <<limiterVars, binanceVars, telegramVars>>
callVars == <<thresholds, factor_weights, input, scores, heap, args, results,
              stat, method, factors, composite, snapshot, candles, params,
              ret, rounding, first>>

Range(s) == {s[i] : i \in DOMAIN s}
Min(a, b) == IF a < b THEN a ELSE b

RECURSIVE Sum(_)
Sum(s) == IF s = <<>> THEN 0 ELSE s[1] + Sum(Tail(s))

RECURSIVE SumSq(_)
SumSq(s) == IF s = <<>> THEN 0 ELSE s[1] * s[1] + SumSq(Tail(s))

\* ---------------------------------------------------------- Python slices
\* s[:k] for k >= 0
SliceHead(s, k) == SubSeq(s, 1, Min(k, Len(s)))

\* s[-k:] for k >= 0; s[-0:] is s[0:], the whole list
SliceTail(s, k) ==
    IF k = 0 THEN s ELSE SubSeq(s, Len(s) - Min(k, Len(s)) + 1, Len(s))

\* ------------------------------------------------- the scored population
IsScored(d) == d.composite_score # None

\* df["composite_score"].dropna(): the non-null scores, in batch order
composite_scores(h, ids) ==
    LET scored == SelectSeq(ids, LAMBDA id : IsScored(h[id]))
    IN  [k \in 1..Len(scored) |-> Val(h[scored[k]].composite_score)]

\* the k-th smallest element of vs (1-based)
Kth(vs, k) ==
    CHOOSE v \in Range(vs) :
        /\ Cardinality({i \in DOMAIN vs : vs[i] < v}) < k
        /\ k <= Cardinality({i \in DOMAIN vs : vs[i] <= v})

\* Four times Series.quantile(q4 / 4) with pandas' linear interpolation:
\* position (n-1)*q, value lo + (hi - lo) * fraction.
quantile4(vs, q4) ==
    LET p  == (Len(vs) - 1) * q4
        lo == p \div 4
        r  == p % 4
    IN  IF r = 0 THEN 4 * Kth(vs, lo + 1)
        ELSE 4 * Kth(vs, lo + 1) + r * (Kth(vs, lo + 2) - Kth(vs, lo + 1))

\* IqrFlag with the bounds themselves counted as outliers (>=, <=).
IqrFlagInclusive(cs, vs) ==
    LET Q1 == quantile4(vs, 1)
        Q3 == quantile4(vs, 3)
        IQR == Q3 - Q1
        lower_bound == Q1 - multiplier * IQR
        upper_bound == Q3 + multiplier * IQR
    IN  IF cs = None THEN <<"False", "None">>
        ELSE IF 4 * Val(cs) >= upper_bound THEN <<"True", "top">>
        ELSE IF 4 * Val(cs) <= lower_bound THEN <<"True", "bottom">>
        ELSE <<"False", "None">>

\* IQR step for one dict; every quantity is scaled by 4.
IqrFlag(cs, vs) ==
    LET Q1 == quantile4(vs, 1)
        Q3 == quantile4(vs, 3)
        IQR == Q3 - Q1
        lower_bound == Q1 - multiplier * IQR
        upper_bound == Q3 + multiplier * IQR
    IN  IF cs = None THEN <<"False", "None">>
        ELSE IF 4 * Val(cs) > upper_bound THEN <<"True", "top">>
        ELSE IF 4 * Val(cs) < lower_bound THEN <<"True", "bottom">>
        ELSE <<"False", "None">>

\* z_score_threshold or thresholds.outlier_z_score
z_threshold(z) == OrElse(z, thresholds.outlier_z_score)

AllEqual(vs) == \A i, j \in DOMAIN vs : vs[i] = vs[j]

\* mean_score minus the exact mean, as a sign. The scores are floats: the
\* sum of three or more equal scores and its quotient by n are rounded, so
\* that the mean of [0.1, 0.1, 0.1] is 0.10000000000000002; which way, if at
\* all, depends on the value. Batches with different scores are taken as
\* exact.
MeanError(vs) == IF Len(vs) >= 3 /\ AllEqual(vs) THEN rounding ELSE 0

\* the sign the rounding of a float mean may take for a series: none for
\* fewer than 3 values, for values that differ, or for zeros
MayRound(e, vs) == e # 0 => Len(vs) >= 3 /\ AllEqual(vs) /\ vs[1] # 0

\* std_score > 0. Sample standard deviation (pandas, ddof = 1): NaN for a
\* single score; for equal scores the deviations from the rounded mean,
\* 0 only if the mean is exact.
StdPositive(vs) ==
    /\ Len(vs) >= 2
    /\ \/ Len(vs) * SumSq(vs) - Sum(vs) * Sum(vs) > 0
       \/ MeanError(vs) # 0

\* Sign of Z = (x - mean) / std: -1, 0 or 1 (0 when std is not positive).
ZSign(x, vs) ==
    LET dev == Len(vs) * x - Sum(vs)
    IN  IF ~StdPositive(vs) THEN 0
        ELSE IF MeanError(vs) # 0 THEN -MeanError(vs)
        ELSE IF dev > 0 THEN 1 ELSE IF dev < 0 THEN -1 ELSE 0

\* ZAbsGe with a strict comparison: abs(Z) > t.
ZAbsGt(x, vs, t) ==
    LET n   == Len(vs)
        dev == n * x - Sum(vs)
        vn  == n * SumSq(vs) - Sum(vs) * Sum(vs)
    IN  IF ~StdPositive(vs) THEN 0 > t
        ELSE IF t < 0 THEN TRUE
        ELSE IF MeanError(vs) # 0 THEN 4 * (n - 1) > t * t * n
        ELSE 4 * dev * dev * (n - 1) > t * t * n * vn

\* abs(Z) >= t for t in halves, with Z = (x - mean)/std, mean = S/n,
\* std^2 = (n*SS - S^2) / (n*(n-1)); squared and cross-multiplied. With n
\* equal scores and a rounded mean every deviation is the same e and
\* std^2 = n*e^2/(n-1), so that Z^2 = (n-1)/n.
ZAbsGe(x, vs, t) ==
    LET n   == Len(vs)
        dev == n * x - Sum(vs)
        vn  == n * SumSq(vs) - Sum(vs) * Sum(vs)
    IN  IF ~StdPositive(vs) THEN 0 >= t
        ELSE IF t <= 0 THEN TRUE
        ELSE IF MeanError(vs) # 0 THEN 4 * (n - 1) >= t * t * n
        ELSE 4 * dev * dev * (n - 1) >= t * t * n * vn

\* Z-score step for one dict. The code looks z_score up through the first
\* row of the frame whose composite_score equals the dict's; rows with equal
\* scores have equal Z, so the dict's own score gives the same value.
ZFlag(cs, vs, z) ==
    IF cs = None THEN <<"False", "None">>
    ELSE <<IF ZAbsGe(Val(cs), vs, z_threshold(z)) THEN "True" ELSE "False",
           IF ZSign(Val(cs), vs) > 0 THEN "top"
           ELSE IF ZSign(Val(cs), vs) < 0 THEN "bottom" ELSE "None">>

\* use_iqr and len(composite_scores) >= 4
UsesIqr(use_iqr, vs) == use_iqr /\ Len(vs) >= 4

\* CopyOf without the copy: the loop annotates the caller's dict itself.
CopyAlias(id, n) == id

\* score_dict.copy(): a fresh dict for the dict id of a batch of n dicts
CopyOf(id, n) == id + n

\* sorted_scores without reverse=True: ascending.
sorted_scores_ascending(h, ids) ==
    LET L == SelectSeq(ids, LAMBDA id : IsScored(h[id]))
        sc(i) == Val(h[L[i]].composite_score)
        rank(i) == 1 + Cardinality({j \in DOMAIN L :
                          sc(j) < sc(i) \/ (sc(j) = sc(i) /\ j < i)})
    IN  [k \in 1..Len(L) |-> L[CHOOSE i \in DOMAIN L : rank(i) = k]]

\* sorted([r for r in results if composite_score is not None],
\*        key=composite_score, reverse=True): stable, descending
sorted_scores(h, ids) ==
    LET L == SelectSeq(ids, LAMBDA id : IsScored(h[id]))
        sc(i) == Val(h[L[i]].composite_score)
        rank(i) == 1 + Cardinality({j \in DOMAIN L :
                          sc(j) > sc(i) \/ (sc(j) = sc(i) /\ j < i)})
    IN  [k \in 1..Len(L) |-> L[CHOOSE i \in DOMAIN L : rank(i) = k]]

\* ------------------------------------------------------ identify_outliers
\* The statistical step (IQR or Z-score loop): every dict of the batch is
\* copied and the copy annotated; returns the heap after the loop.
StatHeap(h0, n, a) ==
    LET vs == composite_scores(h0, [i \in 1..n |-> i])
        flag(cs) == IF UsesIqr(a.use_iqr, vs) THEN IqrFlag(cs, vs)
                    ELSE ZFlag(cs, vs, a.z_score_threshold)
        ids == (1..n) \cup {CopyOf(i, n) : i \in 1..n}
    IN  [id \in ids |->
            IF \E i \in 1..n : CopyOf(i, n) = id
            THEN LET src == h0[CHOOSE i \in 1..n : CopyOf(i, n) = id]
                     f == flag(src.composite_score)
                 IN  [src EXCEPT !.is_outlier = f[1], !.outlier_type = f[2]]
            ELSE h0[id]]

\* results after the loop: results.append(score_dict) for each copy
StatResults(n) == [i \in 1..n |-> CopyOf(i, n)]

\* if top_n or bottom_n:
ForcedRuns(a) == Truthy(a.top_n) \/ Truthy(a.bottom_n)

\* top_n = top_n or thresholds.top_n_outliers
EffTopN(a) == OrElse(a.top_n, thresholds.top_n_outliers)

\* bottom_n = bottom_n or thresholds.bottom_n_outliers
EffBottomN(a) == OrElse(a.bottom_n, thresholds.bottom_n_outliers)

\* Forced inclusion: the dicts of sorted_scores[:top_n] are set to top, then
\* those of sorted_scores[-bottom_n:] to bottom (the later loop wins).
ForcedHeap(h1, res, a) ==
    IF ~ForcedRuns(a) THEN h1
    ELSE LET ss   == sorted_scores(h1, res)
             tops == Range(SliceHead(ss, EffTopN(a)))
             bots == Range(SliceTail(ss, EffBottomN(a)))
         IN  [id \in DOMAIN h1 |->
                IF id \in bots
                THEN [h1[id] EXCEPT !.is_outlier = "True", !.outlier_type = "bottom"]
                ELSE IF id \in tops
                THEN [h1[id] EXCEPT !.is_outlier = "True", !.outlier_type = "top"]
                ELSE h1[id]]

Method(h0, n, a) ==
    LET vs == composite_scores(h0, [i \in 1..n |-> i])
    IN  IF n = 0 THEN "empty"
        ELSE IF Len(vs) = 0 THEN "allnull"
        ELSE IF UsesIqr(a.use_iqr, vs) THEN "iqr" ELSE "zscore"

ArgSets == [z_score_threshold : ZArgs, top_n : NArgs, bottom_n : NArgs,
            use_iqr : BOOLEAN]

\* identify_outliers with the threshold it used stored in the configuration.
ThresholdsStored(thr, a) ==
    [thr EXCEPT !.outlier_z_score = OrElse(a.z_score_threshold, thr.outlier_z_score)]

\* self.config.thresholds after a call: identify_outliers binds it to a
\* local name and only reads it.
ThresholdsAfter(thr, a) == thr

\* The record of calls kept for comparing two runs on the same inputs.
Remember(f, in, a, fs, out) ==
    IF f = None
    THEN Some([input |-> in, args |-> a, factors |-> fs, out |-> out,
               others |-> FALSE])
    ELSE IF Val(f).input = in /\ Val(f).args = a /\ Val(f).factors = fs
    THEN f
    ELSE Some([Val(f) EXCEPT !.others = TRUE])

\* One call identify_outliers(scores, z_score_threshold, top_n, bottom_n,
\* use_iqr) on the caller's batch, from the first line to the return.
IdentifyOutliers ==
    LET n  == Len(scores)
        m  == Method(heap, n, args)
        h1 == StatHeap(heap, n, args)
        r1 == StatResults(n)
    IN  /\ op = "identify_outliers"
        /\ pc = "idle"
        /\ pc' = "done"
        /\ method' = m
        /\ IF m = "empty"
           THEN /\ results' = <<>>
                /\ heap' = heap
                /\ stat' = <<>>
           ELSE IF m = "allnull"
           THEN /\ results' = scores
                /\ heap' = heap
                /\ stat' = <<>>
           ELSE /\ results' = r1
                /\ stat' = [i \in 1..n |-> h1[r1[i]]]
                /\ heap' = ForcedHeap(h1, r1, args)
        /\ thresholds' = ThresholdsAfter(thresholds, args)
        /\ first' = Remember(first, input, args, factors,
                             [i \in DOMAIN results' |-> heap'[results'[i]]])
        /\ UNCHANGED <<runVars, adapterVars, op, factor_weights, input, scores, args, factors,
                       composite, snapshot, candles, params, ret, rounding>>

\* ------------------------------------------------ calculate_composite_score
\* dict.get(key, 0)
Get(d, key) == IF key \in DOMAIN d THEN d[key] ELSE Some(0)

\* OrZero with None read as 1 instead of 0.
OrZeroNullAsOne(o) == IF o = None THEN Some(1000) ELSE o

\* x or 0: x when truthy (NaN included), else 0
OrZero(o) == IF Truthy(o) THEN o ELSE Some(0)

\* np.tanh on thousandths, to the thousandth: odd, increasing, and 1 to
\* within rounding from 5 on. The table holds <<x, tanh(x)>>; values between
\* two entries are interpolated.
TanhTable == << <<0, 0>>, <<250, 245>>, <<500, 462>>, <<750, 635>>,
                <<1000, 762>>, <<1500, 905>>, <<2000, 964>>, <<3000, 995>>,
                <<4000, 999>>, <<5000, 1000>> >>

Abs(x) == IF x < 0 THEN -x ELSE x

Tanh(x) ==
    LET a == Abs(x)
        last == TanhTable[Len(TanhTable)]
        y == IF a >= last[1] THEN last[2]
             ELSE LET k == CHOOSE j \in 1..(Len(TanhTable) - 1) :
                              TanhTable[j][1] <= a /\ a < TanhTable[j + 1][1]
                      lo == TanhTable[k]
                      hi == TanhTable[k + 1]
                  IN  lo[2] + ((hi[2] - lo[2]) * (a - lo[1])) \div (hi[1] - lo[1])
    IN  IF x < 0 THEN -y ELSE y

\* `if volume:` is false for None and for an empty dict
VolumeGiven(volume) == volume.given /\ DOMAIN volume.dict # {}

\* The composite score, in units of 1/200000: weights are hundredths, the
\* normalised family scores thousandths, and the whole is doubled so that
\* the halved volume score stays an integer. Every float operation of the
\* computation (/, *, +, np.tanh) yields NaN on a NaN operand.
composite_score(f, w) ==
    LET momentum_score == OrZero(Get(f.momentum, "momentum_24h"))
        macd_signal == OrZero(Get(f.momentum, "macd_signal"))
        momentum_combined == (Val(momentum_score) \div 10) + (Val(macd_signal) \div 2)
        momentum_normalized == Tanh(momentum_combined)
        mean_reversion_score == OrZero(Get(f.mean_reversion, "mean_reversion_zscore"))
        bb_pos == OrZero(Get(f.mean_reversion, "bb_position"))
        mr_combined == (Val(mean_reversion_score) \div 3) + (Val(bb_pos) \div 2)
        mean_reversion_normalized == Tanh(mr_combined)
        carry_score == OrZero(Get(f.carry, "carry_funding_annualized"))
        carry_normalized == Tanh(Val(carry_score) \div 50)
        volume_anomaly == OrZero(Get(f.volume.dict, "volume_anomaly_zscore"))
        volume_divergence == OrZero(Get(f.volume.dict, "volume_price_divergence"))
        volume_anomaly_norm == Tanh(Val(volume_anomaly) \div 3)
        volume_divergence_norm == Tanh(Val(volume_divergence) \div 2)
        volume_normalized2 == IF VolumeGiven(f.volume)
                              THEN volume_anomaly_norm + volume_divergence_norm
                              ELSE 0
        nan == \/ IsNaN(momentum_score) \/ IsNaN(macd_signal)
               \/ IsNaN(mean_reversion_score) \/ IsNaN(bb_pos)
               \/ IsNaN(carry_score)
               \/ /\ VolumeGiven(f.volume)
                  /\ IsNaN(volume_anomaly) \/ IsNaN(volume_divergence)
    IN  IF nan THEN NaN
        ELSE Some(2 * w.momentum * momentum_normalized
                  + 2 * w.mean_reversion * mean_reversion_normalized
                  + 2 * w.carry * carry_normalized
                  + w.volume * volume_normalized2)

\* One call calculate_composite_score(momentum, mean_reversion, carry, volume)
CalculateCompositeScore ==
    /\ op = "calculate_composite_score"
    /\ pc = "idle"
    /\ pc' = "done"
    /\ composite' = composite_score(factors, factor_weights)
    /\ first' = Remember(first, input, args, factors, composite')
    /\ UNCHANGED <<runVars, adapterVars, op, thresholds, factor_weights, input, scores, heap, args,
                   results, stat, method, factors, snapshot, candles, params,
                   ret, rounding>>

\* ------------------------------------------------------------ calculate_carry
\* funding_annualized: None unless `funding_rate is not None`, then
\* funding_rate * 3 * 365 (NaN for a NaN rate); thousandths
Annualize(funding_rate) ==
    IF funding_rate = None THEN None
    ELSE IF IsNaN(funding_rate) THEN NaN
    ELSE Some(Val(funding_rate) * 3 * 365)

\* basis: (mark_price - index_price) / index_price * 100 when both are not
\* None and index_price > 0 (false for NaN); thousandths of a percent
Basis(mark_price, index_price) ==
    IF mark_price = None \/ index_price = None THEN None
    ELSE IF IsNaN(index_price) \/ Val(index_price) <= 0 THEN None
    ELSE IF IsNaN(mark_price) THEN NaN
    ELSE Some(((Val(mark_price) - Val(index_price)) * 100000) \div Val(index_price))

calculate_carry(funding_rate, mark_price, index_price) ==
    [k \in {"carry_funding_annualized", "carry_basis"} |->
        IF k = "carry_funding_annualized" THEN Annualize(funding_rate)
        ELSE Basis(mark_price, index_price)]

\* Pipeline.run_hourly, for one asset with enough candles: the carry dict
\* from the stored snapshot, then the composite score of the factor dicts.
ScoreAsset ==
    /\ op = "score_asset"
    /\ pc = "idle"
    /\ pc' = "done"
    /\ factors' = [factors EXCEPT !.carry =
                      calculate_carry(snapshot.funding_rate, snapshot.mark_price,
                                      snapshot.index_price)]
    /\ composite' = composite_score(factors', factor_weights)
    /\ first' = Remember(first, input, args, factors', composite')
    /\ UNCHANGED <<runVars, adapterVars, op, thresholds, factor_weights, input, scores, heap, args,
                   results, stat, method, snapshot, candles, params, ret,
                   rounding>>

\* -------------------------------------------------------- factor methods
\* Factor values are floats held as integers in thousandths (a percentage
\* in thousandths of a percent); a candle is a record of its columns.
Closes(cs) == [i \in DOMAIN cs |-> cs[i].close]
Volumes(cs) == [i \in DOMAIN cs |-> cs[i].volume]

\* s[-k] for 1 <= k <= len(s)
FromEnd(s, k) == s[Len(s) - k + 1]

\* max(...) of a non-empty collection
MaxOf(S) == CHOOSE m \in S : \A x \in S : x <= m

\* np.diff
Diff(s) == [i \in 1..(Len(s) - 1) |-> s[i + 1] - s[i]]

\* the element-wise product of two arrays of the same length
Times(s, t) == [i \in DOMAIN s |-> s[i] * t[i]]

\* f"{prefix}{period}h"
PeriodKey(prefix, period) == prefix \o ToString(period) \o "h"

\* dict.get(key): None for an absent key
GetOrNone(d, key) == IF key \in DOMAIN d THEN d[key] ELSE None

\* the dict with every one of the keys None
AllNull(keys) == [k \in keys |-> None]

\* the integer square root, for np.sqrt / np.std to the model's precision
RECURSIVE ISqrtIn(_, _, _)
ISqrtIn(x, lo, hi) ==
    IF lo = hi THEN lo
    ELSE LET mid == (lo + hi + 1) \div 2
         IN  IF mid * mid <= x THEN ISqrtIn(x, mid, hi) ELSE ISqrtIn(x, lo, mid - 1)

ISqrt(x) == ISqrtIn(x, 0, 46340)

Sign(x) == IF x > 0 THEN 1 ELSE IF x < 0 THEN -1 ELSE 0

\* (current / past - 1) * 100, for past # 0
PctChange(current, past) == ((current * 100000) \div past) - 100000

\* (x - np.mean(hist)) / np.std(hist) if np.std(hist) > 0 else 0.0, np.std
\* being the population standard deviation: with S and SS the sum and the
\* sum of squares, Z = (n*x - S) / sqrt(n*SS - S^2). For equal values the
\* deviations are taken from the rounded mean (see MeanError) and Z^2 = 1.
ZScoreOrZero(x, hist) ==
    LET n   == Len(hist)
        dev == n * x - Sum(hist)
        vn  == n * SumSq(hist) - Sum(hist) * Sum(hist)
    IN  IF vn > 0 THEN Sign(dev) * ISqrt((dev * dev * 1000000) \div vn)
        ELSE IF MeanError(hist) # 0 THEN -MeanError(hist) * 1000
        ELSE 0

\* (hist < x).sum() / len(hist) * 100
PercentileRank(x, hist) ==
    (Cardinality({i \in DOMAIN hist : hist[i] < x}) * 100000) \div Len(hist)

\* np.corrcoef(x, y)[0, 1] of two arrays of the same length m >= 2, None
\* standing for NaN (a zero variance): (m*Sxy - Sx*Sy) /
\* sqrt((m*Sxx - Sx^2) * (m*Syy - Sy^2))
Corrcoef(x, y) ==
    LET m   == Len(x)
        num == m * Sum(Times(x, y)) - Sum(x) * Sum(y)
        vx  == m * SumSq(x) - Sum(x) * Sum(x)
        vy  == m * SumSq(y) - Sum(y) * Sum(y)
    IN  IF vx = 0 \/ vy = 0 THEN None
        ELSE Some(Sign(num) * ISqrt((num * num * 1000000) \div (vx * vy)))

\* ------------------------------------------------------------- indicators
\* An indicator works on an array of prices and returns arrays of floats,
\* in thousandths of the price unit.
\* np.full_like(prices, np.nan)
NanLike(prices) == [i \in DOMAIN prices |-> NaN]

\* the array as floats in thousandths
Thousandths(data) == [i \in DOMAIN data |-> 1000 * data[i]]

\* pd.Series(data).ewm(alpha=num/den, adjust=False).mean(): seeded with the
\* first value, then y[i] = (1 - alpha) * y[i-1] + alpha * x[i]
RECURSIVE Ewm(_, _, _)
Ewm(data, num, den) ==
    IF Len(data) <= 1 THEN data
    ELSE LET before == Ewm(SubSeq(data, 1, Len(data) - 1), num, den)
         IN  Append(before, ((den - num) * before[Len(before)]
                             + num * data[Len(data)]) \div den)

\* calculate_ema: alpha = 2 / (span + 1)
calculate_ema(data, span) == Ewm(data, 2, span + 1)

\* SignalOf with the comparisons the other way round.
SignalOfInverted(fast_last, slow_last) ==
    IF fast_last > slow_last THEN -1 ELSE IF fast_last < slow_last THEN 1 ELSE 0

\* the if-chain of calculate_ema_crossover on the latest EMAs (the EMA of
\* a non-empty array of numbers is a number: the NaN branch needs NaN prices)
SignalOf(fast_last, slow_last) ==
    IF fast_last > slow_last THEN 1 ELSE IF fast_last < slow_last THEN -1 ELSE 0

\* calculate_ema_crossover: (fast_ema, slow_ema, signal)
calculate_ema_crossover(prices, fast_period, slow_period) ==
    IF Len(prices) < slow_period
    THEN [fast_ema |-> NanLike(prices), slow_ema |-> NanLike(prices), signal |-> 0]
    ELSE LET fast_ema == calculate_ema(Thousandths(prices), fast_period)
             slow_ema == calculate_ema(Thousandths(prices), slow_period)
         IN  [fast_ema |-> [i \in DOMAIN prices |-> Some(fast_ema[i])],
              slow_ema |-> [i \in DOMAIN prices |-> Some(slow_ema[i])],
              signal |-> IF Len(prices) = 0 THEN 0
                         ELSE SignalOf(FromEnd(fast_ema, 1), FromEnd(slow_ema, 1))]

\* calculate_macd: (macd_line, signal_line, histogram)
calculate_macd(prices, fast_period, slow_period, signal_period) ==
    IF Len(prices) < slow_period
    THEN [macd_line |-> NanLike(prices), signal_line |-> NanLike(prices),
          histogram |-> NanLike(prices)]
    ELSE LET fast_ema == calculate_ema(Thousandths(prices), fast_period)
             slow_ema == calculate_ema(Thousandths(prices), slow_period)
             macd_line == [i \in DOMAIN prices |-> fast_ema[i] - slow_ema[i]]
             signal_line == calculate_ema(macd_line, signal_period)
         IN  [macd_line |-> [i \in DOMAIN prices |-> Some(macd_line[i])],
              signal_line |-> [i \in DOMAIN prices |-> Some(signal_line[i])],
              histogram |-> [i \in DOMAIN prices |->
                                Some(macd_line[i] - signal_line[i])]]

\* RsiOf without the override for a zero average loss.
RsiOfNoOverride(avg_gain, avg_loss) ==
    LET rs == IF avg_loss # 0 THEN (avg_gain * 1000) \div avg_loss ELSE 0
    IN  100000 - (100000 * 1000) \div (1000 + rs)

\* rs = avg_gain / avg_loss where avg_loss != 0, else 0;
\* rsi = 100 - 100 / (1 + rs); rsi[avg_loss == 0] = 100
RsiOf(avg_gain, avg_loss) ==
    LET rs == IF avg_loss # 0 THEN (avg_gain * 1000) \div avg_loss ELSE 0
    IN  IF avg_loss = 0 THEN 100000
        ELSE 100000 - (100000 * 1000) \div (1000 + rs)

\* calculate_rsi: the array of RSI values, NaN at the first index
calculate_rsi(prices, period) ==
    IF Len(prices) < period + 1 THEN NanLike(prices)
    ELSE LET deltas == Diff(Thousandths(prices))
             gains == [i \in DOMAIN deltas |-> IF deltas[i] > 0 THEN deltas[i] ELSE 0]
             losses == [i \in DOMAIN deltas |-> IF deltas[i] < 0 THEN -deltas[i] ELSE 0]
             avg_gain == Ewm(gains, 1, period)
             avg_loss == Ewm(losses, 1, period)
         IN  [i \in DOMAIN prices |->
                 IF i = 1 THEN NaN ELSE Some(RsiOf(avg_gain[i - 1], avg_loss[i - 1]))]

\* One call of an indicator on an array of prices.
CalculateEmaCrossover ==
    /\ op = "calculate_ema_crossover"
    /\ pc = "idle"
    /\ pc' = "done"
    /\ ret' = calculate_ema_crossover(Closes(candles), params.fast_period,
                                      params.slow_period)
    /\ UNCHANGED <<runVars, adapterVars, op, thresholds, factor_weights, input, scores, heap, args,
                   results, stat, method, factors, composite, snapshot,
                   candles, params, rounding, first>>

CalculateRsi ==
    /\ op = "calculate_rsi"
    /\ pc = "idle"
    /\ pc' = "done"
    /\ ret' = calculate_rsi(Closes(candles), params.period)
    /\ UNCHANGED <<runVars, adapterVars, op, thresholds, factor_weights, input, scores, heap, args,
                   results, stat, method, factors, composite, snapshot,
                   candles, params, rounding, first>>

\* ------------------------------------------------------ calculate_momentum
MomentumKeys == {"momentum_1h", "momentum_4h", "momentum_24h",
                 "momentum_percentile", "macd_signal", "trend_strength",
                 "ema_signal"}

\* MomentumReturn reading the close period - 1 candles back.
MomentumReturnOneShort(closes, period) ==
    IF Len(closes) >= period + 1
    THEN Some(PctChange(FromEnd(closes, 1), FromEnd(closes, period)))
    ELSE None

\* one pass of the returns loop
MomentumReturn(closes, period) ==
    IF Len(closes) >= period + 1
    THEN Some(PctChange(FromEnd(closes, 1), FromEnd(closes, period + 1)))
    ELSE None

\* np.diff(closes[-25:]) / closes[-25:-1] * 100
RecentReturns(closes) ==
    LET window == SliceTail(closes, 25)
    IN  [i \in 1..(Len(window) - 1) |->
            ((window[i + 1] - window[i]) * 100000) \div window[i]]

\* the percentile block; momentum_scores.get("momentum_1h", 0)
MomentumPercentile(closes, momentum_scores) ==
    IF Len(closes) >= 25
    THEN LET current_return ==
                 IF "momentum_1h" \in DOMAIN momentum_scores
                 THEN momentum_scores["momentum_1h"] ELSE Some(0)
         IN  IF current_return # None /\ ~IsNaN(current_return)
             THEN Some(PercentileRank(Val(current_return), RecentReturns(closes)))
             ELSE None
    ELSE None

\* 1.0 if macd[-1] > signal[-1] else -1.0, and 0.0 when either is NaN
MacdSignal(macd_last, signal_last) ==
    IF IsNaN(macd_last) \/ IsNaN(signal_last) THEN 0
    ELSE IF Val(macd_last) > Val(signal_last) THEN 1000 ELSE -1000

\* hist[-1] / (closes[-1] * 0.01), and 0.0 when the MACD is NaN
TrendStrength(macd_last, signal_last, hist_last, close_last) ==
    IF IsNaN(macd_last) \/ IsNaN(signal_last) THEN 0
    ELSE (Val(hist_last) * 100) \div close_last

\* momentum_scores["ema_signal"] = float(ema_signal)
EmaSignalField(signal) == Some(1000 * signal)

calculate_momentum(cs, periods) ==
    IF Len(cs) < MaxOf(Range(periods)) THEN AllNull(MomentumKeys)
    ELSE LET closes == Closes(cs)
             returns ==
                 [k \in {PeriodKey("momentum_", q) : q \in Range(periods)} |->
                     MomentumReturn(closes,
                         CHOOSE q \in Range(periods) : PeriodKey("momentum_", q) = k)]
             macd == calculate_macd(closes, 12, 26, 9)
             macd_last == FromEnd(macd.macd_line, 1)
             signal_last == FromEnd(macd.signal_line, 1)
             crossover == calculate_ema_crossover(closes, 9, 21)
         IN  [k \in DOMAIN returns \cup {"momentum_percentile", "macd_signal",
                                         "trend_strength", "ema_signal"} |->
                 IF k = "momentum_percentile" THEN MomentumPercentile(closes, returns)
                 ELSE IF k = "macd_signal" THEN Some(MacdSignal(macd_last, signal_last))
                 ELSE IF k = "trend_strength"
                 THEN Some(TrendStrength(macd_last, signal_last,
                                         FromEnd(macd.histogram, 1),
                                         FromEnd(closes, 1)))
                 ELSE IF k = "ema_signal" THEN EmaSignalField(crossover.signal)
                 ELSE returns[k]]

CalculateMomentum ==
    /\ op = "calculate_momentum"
    /\ pc = "idle"
    /\ pc' = "done"
    /\ ret' = calculate_momentum(candles, params.periods)
    /\ UNCHANGED <<runVars, adapterVars, op, thresholds, factor_weights, input, scores, heap, args,
                   results, stat, method, factors, composite, snapshot,
                   candles, params, rounding, first>>

\* ---------------------------------------------------- calculate_oi_factors
OiKeys == {"oi_change_1h", "oi_change_4h", "oi_change_24h"}

\* one pass of the open interest loop
OiChange(oi_values, period) ==
    IF Len(oi_values) >= period + 1
    THEN LET current_oi == FromEnd(oi_values, 1)
             past_oi == FromEnd(oi_values, period + 1)
         IN  IF ~IsNaN(past_oi) /\ Val(past_oi) > 0 /\ ~IsNaN(current_oi)
             THEN Some(PctChange(Val(current_oi), Val(past_oi)))
             ELSE None
    ELSE None

calculate_oi_factors(cs, has_open_interest, periods) ==
    IF ~has_open_interest \/ Len(cs) < MaxOf(Range(periods)) THEN AllNull(OiKeys)
    ELSE LET oi_values == [i \in DOMAIN cs |-> cs[i].open_interest]
         IN  [k \in {PeriodKey("oi_change_", q) : q \in Range(periods)} |->
                 OiChange(oi_values,
                     CHOOSE q \in Range(periods) : PeriodKey("oi_change_", q) = k)]

CalculateOiFactors ==
    /\ op = "calculate_oi_factors"
    /\ pc = "idle"
    /\ pc' = "done"
    /\ ret' = calculate_oi_factors(candles, params.has_open_interest,
                                   params.periods)
    /\ UNCHANGED <<runVars, adapterVars, op, thresholds, factor_weights, input, scores, heap, args,
                   results, stat, method, factors, composite, snapshot,
                   candles, params, rounding, first>>

\* ----------------------------------------------- calculate_btc_correlation
BtcKeys == {"btc_correlation", "btc_beta"}

\* np.diff(closes) / closes[:-1], in tenths
Returns(closes) ==
    [i \in 1..(Len(closes) - 1) |-> ((closes[i + 1] - closes[i]) * 10) \div closes[i]]

\* The values of the array are equal and non-zero and their float mean is
\* off by a rounding error: the deviations from it are not zero.
RoundedMean(vs) == AllEqual(vs) /\ vs[1] # 0 /\ MeanError(vs) # 0

\* The float variance of the array is exactly 0: equal values whose mean is
\* exact.
ZeroVariance(vs) == AllEqual(vs) /\ ~RoundedMean(vs)

\* correlation = np.corrcoef(asset_returns, btc_returns)[0, 1], 0.0 for
\* NaN, in thousandths; with a variance that is only a rounding error the
\* quotient is whatever the errors make it (noise)
BtcCorrelation(asset_returns, btc_returns, noise) ==
    LET m   == Len(asset_returns)
        num == m * Sum(Times(asset_returns, btc_returns))
               - Sum(asset_returns) * Sum(btc_returns)
        vx  == m * SumSq(asset_returns) - Sum(asset_returns) * Sum(asset_returns)
        vy  == m * SumSq(btc_returns) - Sum(btc_returns) * Sum(btc_returns)
    IN  IF ZeroVariance(asset_returns) \/ ZeroVariance(btc_returns) THEN 0
        ELSE IF vx = 0 \/ vy = 0 THEN noise
        ELSE Sign(num) * ISqrt(((num * num * 1000) \div (vx * vy)) * 1000)

\* beta = np.cov(asset_returns, btc_returns)[0, 1] / np.var(btc_returns) if
\* the variance is > 0, else 1.0, in thousandths: the covariance divides by
\* m - 1 and the variance by m
BtcBeta(asset_returns, btc_returns, noise) ==
    LET m   == Len(asset_returns)
        num == m * Sum(Times(asset_returns, btc_returns))
               - Sum(asset_returns) * Sum(btc_returns)
        vy  == m * SumSq(btc_returns) - Sum(btc_returns) * Sum(btc_returns)
    IN  IF ZeroVariance(btc_returns) THEN 1000
        ELSE IF vy = 0 THEN noise
        ELSE (1000 * m * num) \div ((m - 1) * vy)

calculate_btc_correlation(asset_candles, btc_candles, lookback_periods, noise) ==
    IF Len(asset_candles) < lookback_periods \/ Len(btc_candles) < lookback_periods
    THEN AllNull(BtcKeys)
    ELSE LET asset_tail == SliceTail(Closes(asset_candles), lookback_periods)
             btc_tail == SliceTail(Closes(btc_candles), lookback_periods)
             min_len == Min(Len(asset_tail), Len(btc_tail))
         IN  IF min_len < 2 THEN AllNull(BtcKeys)
             ELSE LET asset_returns == Returns(SliceTail(asset_tail, min_len))
                      btc_returns == Returns(SliceTail(btc_tail, min_len))
                  IN  IF Len(asset_returns) < 2 THEN AllNull(BtcKeys)
                      ELSE [k \in BtcKeys |->
                              IF k = "btc_correlation"
                              THEN Some(BtcCorrelation(asset_returns,
                                                       btc_returns, noise))
                              ELSE Some(BtcBeta(asset_returns, btc_returns,
                                                noise))]

CalculateBtcCorrelation ==
    /\ op = "calculate_btc_correlation"
    /\ pc = "idle"
    /\ pc' = "done"
    /\ ret' = calculate_btc_correlation(candles, params.btc_candles,
                                        params.lookback_periods, params.noise)
    /\ UNCHANGED <<runVars, adapterVars, op, thresholds, factor_weights, input, scores, heap,
                   args, results, stat, method, factors, composite, snapshot,
                   candles, params, rounding, first>>

\* ------------------------------------------------ calculate_volume_factors
VolumeKeys == {"volume_momentum_1h", "volume_momentum_4h", "volume_momentum_24h",
               "volume_anomaly_zscore", "volume_percentile",
               "volume_price_divergence"}

\* one pass of the volume momentum loop
VolumeMomentum(volumes, period) ==
    IF Len(volumes) >= period
    THEN LET current_volume == FromEnd(volumes, 1)
             past_volume == IF period < Len(volumes)
                            THEN FromEnd(volumes, period) ELSE volumes[1]
         IN  IF past_volume > 0
             THEN Some(PctChange(current_volume, past_volume))
             ELSE None
    ELSE None

\* the divergence block; standardising the changes (subtracting the mean
\* and dividing by std + 1e-10) leaves their correlation as it is
VolumePriceDivergence(volumes, closes, lookback_periods) ==
    IF Len(volumes) >= lookback_periods
    THEN LET volume_changes == Diff(SliceTail(volumes, lookback_periods))
             price_changes == Diff(SliceTail(closes, lookback_periods))
         IN  IF Len(volume_changes) > 1 /\ Len(price_changes) > 1
             THEN LET correlation == Corrcoef(volume_changes, price_changes)
                  IN  IF correlation # None THEN Some(-Val(correlation))
                      ELSE Some(0)
             ELSE None
    ELSE None

calculate_volume_factors(cs, periods, lookback_periods) ==
    IF Len(cs) < MaxOf(Range(periods) \cup {lookback_periods})
    THEN AllNull(VolumeKeys)
    ELSE LET volumes == Volumes(cs)
             closes == Closes(cs)
             volume_momentum ==
                 [k \in {PeriodKey("volume_momentum_", q) : q \in Range(periods)} |->
                     VolumeMomentum(volumes,
                         CHOOSE q \in Range(periods) :
                             PeriodKey("volume_momentum_", q) = k)]
             historical_volumes == SliceTail(volumes, lookback_periods)
             volume_anomaly_zscore ==
                 IF Len(volumes) >= lookback_periods
                 THEN Some(ZScoreOrZero(FromEnd(volumes, 1), historical_volumes))
                 ELSE None
             volume_percentile ==
                 IF Len(volumes) >= lookback_periods
                 THEN Some(PercentileRank(FromEnd(volumes, 1), historical_volumes))
                 ELSE None
         IN  [k \in VolumeKeys |->
                 IF k = "volume_anomaly_zscore" THEN volume_anomaly_zscore
                 ELSE IF k = "volume_percentile" THEN volume_percentile
                 ELSE IF k = "volume_price_divergence"
                 THEN VolumePriceDivergence(volumes, closes, lookback_periods)
                 ELSE GetOrNone(volume_momentum, k)]

\* One call of a factor method on the caller's candle frame.
CalculateVolumeFactors ==
    /\ op = "calculate_volume_factors"
    /\ pc = "idle"
    /\ pc' = "done"
    /\ ret' = calculate_volume_factors(candles, params.periods,
                                       params.lookback_periods)
    /\ UNCHANGED <<runVars, adapterVars, op, thresholds, factor_weights, input, scores, heap, args,
                   results, stat, method, factors, composite, snapshot,
                   candles, params, rounding, first>>

\* ------------------------------------------------------------------- Init
\* Pipeline.run_hourly calls identify_outliers(factor_scores): every
\* parameter at its default.
PipelineArgs == [z_score_threshold |-> None, top_n |-> None,
                 bottom_n |-> None, use_iqr |-> TRUE]

\* Thresholds() as the configuration builds it (the Z threshold in halves)
DefaultThresholds == [outlier_z_score |-> 2 * outlier_z_score,
                      top_n_outliers |-> top_n_outliers,
                      bottom_n_outliers |-> bottom_n_outliers]

\* FactorWeights() as the configuration builds it
DefaultWeights == [momentum |-> 25, mean_reversion |-> 25, carry |-> 30,
                   volume |-> 20]

\* the weights a configuration file may set instead
WeightSets == {DefaultWeights,
               [momentum |-> 100, mean_reversion |-> 0, carry |-> 50,
                volume |-> 200]}

\* values of a factor: None, a moderate value and extreme ones
WideVals == {None, Some(-3000000), Some(1500), Some(3000000)}
\* values of a signal or position in [-1, 1]
UnitVals == {None, Some(-1000), Some(1000)}

\* the dicts with some of the keys k1 (values in V1) and k2 (values in V2)
Dicts2(k1, V1, k2, V2) ==
    UNION {{d \in [K -> V1 \cup V2] :
              \A k \in K : d[k] \in (IF k = k1 THEN V1 ELSE V2)}
           : K \in SUBSET {k1, k2}}

MomentumDicts == Dicts2("momentum_24h", WideVals, "macd_signal", UnitVals)
MeanReversionDicts ==
    Dicts2("mean_reversion_zscore", WideVals, "bb_position", UnitVals)
CarryDicts == UNION {[K -> WideVals] : K \in SUBSET {"carry_funding_annualized"}}
VolumeArgs ==
    {[given |-> FALSE, dict |-> <<>>]} \cup
    {[given |-> TRUE, dict |-> d] :
        d \in Dicts2("volume_anomaly_zscore", WideVals,
                     "volume_price_divergence", WideVals)}

NoArgs == PipelineArgs
NoSnapshot == [funding_rate |-> None, mark_price |-> None, index_price |-> None]
NoCandles == <<>>
NoParams == <<>>
NoRet == <<>>

\* A DOUBLE column of the snapshot: NULL read back as NaN, or a number; a
\* row built in memory may also hold None.
RateVals == {None, NaN, Some(0), Some(1), Some(-2)}
PriceVals == {None, NaN, Some(0), Some(100), Some(101)}
Snapshots == [funding_rate : RateVals, mark_price : PriceVals,
              index_price : PriceVals]
NoFactors == [momentum |-> <<>>, mean_reversion |-> <<>>, carry |-> <<>>,
              volume |-> [given |-> FALSE, dict |-> <<>>]]

\* The caller has built a batch and chosen the arguments; no call made yet.
\* Pre-initialised dicts come from the pipeline, with the pipeline's call;
\* any other caller passes dicts of symbol and composite_score.
InitOutliers ==
    \E batch \in Batches, pre \in BOOLEAN, a \in ArgSets, e \in {-1, 0, 1} :
        LET h0 == [i \in 1..Len(batch) |-> ScoreDict(i, batch[i], pre)]
            vs == composite_scores(h0, [i \in 1..Len(batch) |-> i])
        IN  /\ pre => a = PipelineArgs
            /\ MayRound(e, vs)
            /\ rounding = e
            /\ op = "identify_outliers"
            /\ input = h0
            /\ heap = h0
            /\ scores = [i \in 1..Len(batch) |-> i]
            /\ args = a
            /\ factor_weights = DefaultWeights
            /\ factors = NoFactors
            /\ snapshot = NoSnapshot
            /\ candles = NoCandles /\ params = NoParams

\* The caller has the factor dicts of one asset.
InitComposite ==
    /\ op = "calculate_composite_score"
    /\ input = <<>> /\ heap = <<>> /\ scores = <<>> /\ args = NoArgs
    /\ factor_weights \in WeightSets
    /\ factors \in [momentum : MomentumDicts, mean_reversion : MeanReversionDicts,
                    carry : CarryDicts, volume : VolumeArgs]
    /\ snapshot = NoSnapshot
    /\ candles = NoCandles /\ params = NoParams
    /\ rounding = 0

\* The pipeline has the factor dicts of one asset's candles and its snapshot;
\* the carry dict is still to be computed.
AssetFactors ==
    [momentum : {[k \in {"momentum_24h", "macd_signal"} |->
                    IF k = "momentum_24h" THEN v ELSE Some(0)] :
                    v \in {None, Some(1500)}},
     mean_reversion : {[k \in {"mean_reversion_zscore", "bb_position"} |->
                          IF k = "bb_position" THEN v ELSE Some(0)] :
                          v \in {Some(0), Some(-1000)}},
     carry : {<<>>},
     volume : {[given |-> TRUE,
                dict |-> [k \in {"volume_anomaly_zscore",
                                 "volume_price_divergence"} |-> v]] :
                  v \in {None, Some(1500)}}]

\* The other variables of a call of a factor method or indicator.
InitFactorCall ==
    /\ input = <<>> /\ heap = <<>> /\ scores = <<>> /\ args = NoArgs
    /\ factor_weights = DefaultWeights
    /\ factors = NoFactors
    /\ snapshot = NoSnapshot

\* Candle frames of up to MaxCandles rows with closes in CloseVals and
\* volumes in VolumeVals.
CloseVals == {10, 11}
VolumeVals == {0, 1, 2}
Frames(Rows) == UNION {[1..n -> Rows] : n \in 0..MaxCandles}

InitVolumeFactors ==
    /\ op = "calculate_volume_factors"
    /\ candles \in Frames([close : CloseVals, volume : VolumeVals])
    /\ params \in {[periods |-> <<1>>, lookback_periods |-> 2],
                   [periods |-> <<1, 4>>, lookback_periods |-> 3]}
    /\ rounding \in {-1, 0, 1}
    /\ Len(candles) >= params.lookback_periods
           => MayRound(rounding, SliceTail(Volumes(candles), params.lookback_periods))
    /\ Len(candles) < params.lookback_periods => rounding = 0
    /\ InitFactorCall

\* arrays of prices, as the closes of a frame
PriceArrays == Frames([close : CloseVals \cup {12}, volume : {1}])

\* Longer frames, of LongMin to MaxLong rows: closes that stay flat, rise or
\* fall by one a candle, rise and then drop, or stay flat and then jump.
Shapes == {"flat", "up", "down", "drop", "jump"}
ShapedClose(shape, i, n) ==
    IF shape = "flat" THEN 100
    ELSE IF shape = "up" THEN 100 + i
    ELSE IF shape = "down" THEN 200 - i
    ELSE IF shape = "drop" THEN (IF i > n - 2 THEN 80 + i ELSE 100 + i)
    ELSE (IF i = n THEN 110 ELSE 100)
LongFrames ==
    {[i \in 1..n |-> [close |-> ShapedClose(shape, i, n), volume |-> 1]] :
        n \in LongMin..MaxLong, shape \in Shapes}

InitMomentum ==
    /\ op = "calculate_momentum"
    /\ candles \in PriceArrays \cup LongFrames
    /\ params \in {[periods |-> <<1, 4, 24>>], [periods |-> <<1, 2>>]}
    /\ rounding = 0
    /\ InitFactorCall

InitOiFactors ==
    /\ op = "calculate_oi_factors"
    /\ candles \in Frames([close : {10}, volume : {1},
                            open_interest : {NaN, Some(0), Some(1), Some(2)}])
    /\ params \in [has_open_interest : BOOLEAN, periods : {<<1, 4, 24>>, <<1, 2>>}]
    /\ rounding = 0
    /\ InitFactorCall

\* BTC closes that double from candle to candle: every return is the same
\* non-zero number.
DoublingFrames ==
    {[i \in 1..n |-> [close |-> 2 ^ (i - 1), volume |-> 1]] : n \in 4..MaxCandles}

InitBtcCorrelation ==
    /\ op = "calculate_btc_correlation"
    /\ candles \in Frames([close : CloseVals, volume : {1}])
    /\ \E btc \in Frames([close : CloseVals, volume : {1}]) \cup DoublingFrames,
          lookback \in {2, 3, 4}, e \in {-1, 0, 1}, noise \in {-1000, 0, 500} :
          /\ e # 0 => /\ lookback = 4 /\ Len(candles) >= 4 /\ Len(btc) >= 4
                       /\ \/ MayRound(e, Returns(SliceTail(Closes(btc), 4)))
                          \/ MayRound(e, Returns(SliceTail(Closes(candles), 4)))
          /\ e = 0 => noise = 0
          /\ rounding = e
          /\ params = [btc_candles |-> btc, lookback_periods |-> lookback,
                        noise |-> noise]
    /\ InitFactorCall

InitEmaCrossover ==
    /\ op = "calculate_ema_crossover"
    /\ candles \in PriceArrays
    /\ params \in {[fast_period |-> 1, slow_period |-> 2],
                   [fast_period |-> 2, slow_period |-> 4],
                   [fast_period |-> 3, slow_period |-> 3]}
    /\ rounding = 0
    /\ InitFactorCall

InitRsi ==
    /\ op = "calculate_rsi"
    /\ candles \in PriceArrays
    /\ params \in {[period |-> 1], [period |-> 2], [period |-> 3]}
    /\ rounding = 0
    /\ InitFactorCall

InitAsset ==
    /\ op = "score_asset"
    /\ input = <<>> /\ heap = <<>> /\ scores = <<>> /\ args = NoArgs
    /\ factor_weights = DefaultWeights
    /\ factors \in AssetFactors
    /\ snapshot \in Snapshots
    /\ candles = NoCandles /\ params = NoParams
    /\ rounding = 0

\* No run of the pipeline is under way.
NoRun ==
    /\ universe_df = <<>> /\ cursor = 0 /\ now = 0 /\ batch_timestamp = None
    /\ factor_scores = <<>> /\ detector_calls = <<>> /\ stored = <<>>
    /\ telegram_summaries = <<>> /\ telegram_sent = <<>>

\* No rate limiter is in use.
NoLimiter ==
    /\ max_requests = 0 /\ time_window = 0 /\ request_times = <<>>
    /\ admitted = <<>>

\* No exchange adapter is in use.
NoBinance ==
    /\ base_url = "none" /\ futures_symbols_cache = None /\ entered = <<>>
    /\ requested = <<>> /\ raised = FALSE

\* No Telegram bot is in use.
NoTelegram ==
    /\ config = [enabled |-> FALSE, bot_token |-> None, chat_id |-> None]
    /\ json_error_caught = TRUE
    /\ parse_mode = "none" /\ replies = <<>> /\ http_requests = <<>>
    /\ returned = "none"

NoAdapter == NoLimiter /\ NoBinance /\ NoTelegram

\* The variables of calls on the factor calculator, at rest.
NoCall ==
    /\ thresholds = DefaultThresholds
    /\ factor_weights = DefaultWeights
    /\ input = <<>> /\ heap = <<>> /\ scores = <<>> /\ args = PipelineArgs
    /\ results = <<>> /\ stat = <<>> /\ method = "none"
    /\ factors = NoFactors /\ composite = None /\ snapshot = NoSnapshot
    /\ candles = NoCandles /\ params = NoParams /\ ret = NoRet
    /\ first = None /\ rounding = 0

Init ==
    /\ pc = "idle"
    /\ NoRun
    /\ NoAdapter
    /\ thresholds = DefaultThresholds
    /\ results = <<>> /\ stat = <<>> /\ method = "none" /\ composite = None
    /\ ret = NoRet
    /\ first = None
    /\ \/ InitOutliers \/ InitComposite \/ InitAsset
       \/ InitVolumeFactors \/ InitEmaCrossover \/ InitRsi
       \/ InitMomentum \/ InitOiFactors \/ InitBtcCorrelation

Next ==
    \/ IdentifyOutliers \/ CalculateCompositeScore \/ ScoreAsset
    \/ CalculateVolumeFactors \/ CalculateEmaCrossover \/ CalculateRsi
    \/ CalculateMomentum \/ CalculateOiFactors \/ CalculateBtcCorrelation

Spec == Init /\ [][Next]_vars

\* ------------------------------------------- several calls, one calculator
\* The batches, arguments and factor dicts of a session of calls.
DetBatches == {<<>>, <<None>>, <<Some(5), None, Some(0)>>,
               <<Some(-5), Some(0), Some(5)>>,
               <<Some(0), Some(0), Some(0), Some(5)>>}
DetArgs == {a \in ArgSets : /\ a.top_n \in {None, Some(1)}
                            /\ a.bottom_n \in {None, Some(1)}}
DetFactors ==
    [momentum : {<<>>, [k \in {"momentum_24h"} |-> Some(1500)]},
     mean_reversion : {[k \in {"bb_position"} |-> None],
                       [k \in {"bb_position"} |-> Some(-1000)]},
     carry : {[k \in {"carry_funding_annualized"} |-> v] :
                 v \in {None, Some(3000000)}},
     volume : {[given |-> FALSE, dict |-> <<>>],
               [given |-> TRUE,
                dict |-> [k \in {"volume_anomaly_zscore"} |-> Some(1500)]]}]

DetInput ==
    \/ /\ op = "identify_outliers"
       /\ [i \in DOMAIN input |-> input[i].composite_score] \in DetBatches
       /\ args \in DetArgs
    \/ /\ op = "calculate_composite_score"
       /\ factors \in DetFactors

\* The caller, holding the result of a call, prepares the next call of the
\* same method on the same calculator.
NextCall ==
    /\ pc = "done"
    /\ pc' = "idle"
    /\ results' = <<>> /\ stat' = <<>> /\ method' = "none" /\ composite' = None
    /\ \/ /\ op = "identify_outliers"
          /\ \E batch \in DetBatches, pre \in BOOLEAN, a \in DetArgs :
                LET h0 == [i \in 1..Len(batch) |-> ScoreDict(i, batch[i], pre)]
                IN  /\ pre => a = PipelineArgs
                    /\ input' = h0
                    /\ heap' = h0
                    /\ scores' = [i \in 1..Len(batch) |-> i]
                    /\ args' = a
          /\ UNCHANGED factors
       \/ /\ op = "calculate_composite_score"
          /\ factors' \in DetFactors
          /\ UNCHANGED <<input, heap, scores, args>>
    /\ UNCHANGED <<runVars, adapterVars, op, thresholds, factor_weights, snapshot, candles, params,
                   ret, rounding, first>>

InitDet == Init /\ DetInput

NextDet == IdentifyOutliers \/ CalculateCompositeScore \/ NextCall

SpecDet == InitDet /\ [][NextDet]_vars

\* ------------------------------------------------------ Pipeline.run_hourly
\* Steps 5 to 7 of one run, on the universe Steps 1 to 4 left. An asset of
\* the universe is what the scoring loop finds for it: no symbol, no market
\* data, no candles, fewer than min_data_points candles, an exception in a
\* factor method, or a composite score. Its symbol is its position.
SkipOutcomes == {"no_symbol", "no_market_data", "no_candles", "few_candles",
                 "raises"}
Assets == [outcome : SkipOutcomes, composite_score : {None}]
          \cup [outcome : {"scored"}, composite_score : {Some(-5), Some(5)}]
Universes == UNION {[1..n -> Assets] : n \in 0..MaxAssets}

\* The factor dicts of a scored asset: 24 rising candles, a funding rate
\* and a mark price above the index price.
AssetCandles == [i \in 1..24 |-> [close |-> 100 + i, volume |-> 1]]
MeanReversionKeys == {"mean_reversion_zscore", "rsi", "bb_position"}
VolatilityKeys == {"volatility_atr_pct"}
AssetDicts ==
    [momentum |-> calculate_momentum(AssetCandles, <<1, 4, 24>>),
     mean_reversion |-> [k \in MeanReversionKeys |-> Some(0)],
     volatility |-> [k \in VolatilityKeys |-> Some(0)],
     carry |-> calculate_carry(Some(1), Some(101), Some(100)),
     volume |-> calculate_volume_factors(AssetCandles, <<1, 4, 24>>, 24)]

\* the fields the record copies from each factor dict with .get
CopiedFrom ==
    [momentum |-> {"momentum_1h", "momentum_4h", "momentum_24h",
                   "momentum_percentile", "macd_signal", "trend_strength"},
     mean_reversion |-> {"mean_reversion_zscore", "rsi", "bb_position"},
     volatility |-> {"volatility_atr_pct"},
     carry |-> {"carry_funding_annualized", "carry_basis"},
     volume |-> {"volume_momentum_1h", "volume_momentum_4h",
                 "volume_momentum_24h", "volume_anomaly_zscore",
                 "volume_percentile", "volume_price_divergence"}]
OwnFields == {"timestamp", "exchange", "symbol", "price_btc", "open_interest",
              "funding_rate", "funding_rate_apr", "composite_score",
              "is_outlier", "outlier_type"}

\* RecordTimestamp reading the clock for each record.
RecordTimestampNow(batch_ts, clock) == clock

\* "timestamp": batch_timestamp
RecordTimestamp(batch_ts, clock) == Val(batch_ts)

\* score_dict = {...}: the record of one scored asset
score_dict(symbol, asset, dicts, batch_ts, clock) ==
    [k \in OwnFields \cup UNION {CopiedFrom[f] : f \in DOMAIN CopiedFrom} |->
        IF k = "timestamp" THEN RecordTimestamp(batch_ts, clock)
        ELSE IF k = "exchange" THEN "binance"
        ELSE IF k = "symbol" THEN symbol
        ELSE IF k = "composite_score" THEN asset.composite_score
        ELSE IF k = "is_outlier" THEN "False"
        ELSE IF k = "outlier_type" THEN "None"
        ELSE IF k = "funding_rate" THEN Some(1)
        ELSE IF k = "funding_rate_apr" THEN Some(1 * 3 * 365 * 100)
        ELSE IF k \in {"price_btc", "open_interest"} THEN Some(1)
        ELSE LET f == CHOOSE g \in DOMAIN CopiedFrom : k \in CopiedFrom[g]
             IN  GetOrNone(dicts[f], k)]

\* identify_outliers(factor_scores) as the pipeline calls it: the returned
\* list of dicts
identify_outliers(batch, a) ==
    LET n  == Len(batch)
        m  == Method(batch, n, a)
        h1 == StatHeap(batch, n, a)
        r1 == StatResults(n)
        h2 == ForcedHeap(h1, r1, a)
    IN  IF m \in {"empty", "allnull"} THEN batch
        ELSE [i \in 1..n |-> h2[r1[i]]]

\* save_factor_scores: the columns the table is written with
expected_columns ==
    {"timestamp", "exchange", "symbol", "price_btc",
     "momentum_1h", "momentum_4h", "momentum_24h", "momentum_percentile",
     "mean_reversion_zscore", "rsi",
     "carry_funding_annualized", "carry_basis",
     "volume_momentum_1h", "volume_momentum_4h", "volume_momentum_24h",
     "volume_anomaly_zscore", "volume_percentile", "volume_price_divergence",
     "composite_score", "is_outlier", "outlier_type"}
save_factor_scores(batch) ==
    [i \in DOMAIN batch |-> [c \in expected_columns |-> GetOrNone(batch[i], c)]]

\* Step 5, before the loop: batch_timestamp = now_utc4(); factor_scores = []
StartScoring ==
    /\ op = "run_hourly"
    /\ pc = "step5"
    /\ pc' = "scoring"
    /\ batch_timestamp' = Some(now)
    /\ factor_scores' = <<>>
    /\ cursor' = 1
    /\ now' = now + 1
    /\ UNCHANGED <<op, universe_df, detector_calls, stored, telegram_summaries,
                   telegram_sent, adapterVars, callVars>>

\* One pass of the scoring loop: the asset is skipped, or its record is
\* appended to factor_scores.
ScoreNextAsset ==
    /\ op = "run_hourly"
    /\ pc = "scoring"
    /\ cursor <= Len(universe_df)
    /\ LET asset == universe_df[cursor]
       IN  factor_scores' =
              IF asset.outcome = "scored"
              THEN Append(factor_scores,
                          score_dict(cursor, asset, AssetDicts,
                                     batch_timestamp, now))
              ELSE factor_scores
    /\ cursor' = cursor + 1
    /\ now' = now + 1
    /\ UNCHANGED <<op, pc, universe_df, batch_timestamp, detector_calls,
                   stored, telegram_summaries,
                   telegram_sent, adapterVars, callVars>>

\* Step 6, after the loop: if factor_scores is not empty, identify_outliers
\* is called on it and the result saved.
IdentifyAndSave ==
    /\ op = "run_hourly"
    /\ pc = "scoring"
    /\ cursor > Len(universe_df)
    /\ IF factor_scores # <<>>
       THEN /\ detector_calls' = Append(detector_calls,
                                        [batch |-> factor_scores,
                                         cursor |-> cursor])
            /\ factor_scores' = identify_outliers(factor_scores, PipelineArgs)
            /\ stored' = Append(stored, save_factor_scores(factor_scores'))
            /\ pc' = "step6b"
       ELSE /\ pc' = "step7"
            /\ UNCHANGED <<detector_calls, factor_scores, stored>>
    /\ now' = now + 1
    /\ UNCHANGED <<op, universe_df, cursor, batch_timestamp, telegram_summaries,
                   telegram_sent, adapterVars, callVars>>

\* Step 6b: `if not btc_candles_df.empty:` reads a name that run_hourly
\* never binds; the NameError leaves the try block and the run.
EnrichOutliers ==
    /\ op = "run_hourly"
    /\ pc = "step6b"
    /\ pc' = "failed"
    /\ now' = now + 1
    /\ UNCHANGED <<op, universe_df, cursor, batch_timestamp, factor_scores,
                   detector_calls, stored, telegram_summaries,
                   telegram_sent, adapterVars, callVars>>

\* generate_summary_hash(generate_summary(...)): the summary says which
\* records are outliers, of which type and with which score
SummaryHash(batch) ==
    [i \in DOMAIN batch |->
        <<batch[i]["symbol"], batch[i]["is_outlier"], batch[i]["outlier_type"],
          batch[i]["composite_score"]>>]

\* get_last_summary_hash: the hash of the latest row with sent = true
get_last_summary_hash(rows) ==
    LET sent == {i \in DOMAIN rows : rows[i].sent}
    IN  IF sent = {} THEN None
        ELSE Some(rows[CHOOSE i \in sent : \A j \in sent : j <= i].summary_hash)

\* save_summary: a row for this summary
save_summary(rows, summary_hash, sent) ==
    Append(rows, [summary_hash |-> summary_hash, sent |-> sent])

\* Step 7 and Step 8: with records (the bot being configured) the summary
\* is hashed and compared with the last one sent, sent unless it is a
\* duplicate, and stored with what became of it; then the cleanup.
FinishRun ==
    /\ op = "run_hourly"
    /\ pc = "step7"
    /\ pc' = "finished"
    /\ now' = now + 1
    /\ IF factor_scores # <<>>
       THEN LET summary_hash == SummaryHash(factor_scores)
                is_duplicate ==
                    get_last_summary_hash(telegram_summaries) = Some(summary_hash)
            IN  IF is_duplicate
                THEN /\ telegram_summaries' =
                           save_summary(telegram_summaries, summary_hash, FALSE)
                     /\ UNCHANGED telegram_sent
                ELSE \E success \in BOOLEAN :
                        /\ telegram_sent' = Append(telegram_sent, summary_hash)
                        /\ telegram_summaries' =
                              save_summary(telegram_summaries, summary_hash,
                                           success)
       ELSE UNCHANGED <<telegram_summaries, telegram_sent>>
    /\ UNCHANGED <<op, universe_df, cursor, batch_timestamp, factor_scores,
                   detector_calls, stored, adapterVars, callVars>>

\* run_hourly has reached Step 5 with the universe of Steps 1 to 4.
InitRun ==
    /\ op = "run_hourly"
    /\ pc = "step5"
    /\ universe_df \in Universes
    /\ cursor = 0 /\ now = 0 /\ batch_timestamp = None
    /\ factor_scores = <<>> /\ detector_calls = <<>> /\ stored = <<>>
    /\ telegram_summaries = <<>> /\ telegram_sent = <<>>
    /\ NoAdapter
    /\ thresholds = DefaultThresholds
    /\ factor_weights = DefaultWeights
    /\ input = <<>> /\ heap = <<>> /\ scores = <<>> /\ args = PipelineArgs
    /\ results = <<>> /\ stat = <<>> /\ method = "none"
    /\ factors = NoFactors /\ composite = None /\ snapshot = NoSnapshot
    /\ candles = NoCandles /\ params = NoParams /\ ret = NoRet
    /\ first = None
    /\ rounding \in {-1, 0, 1}
    /\ MayRound(rounding,
                composite_scores(universe_df,
                                 [i \in DOMAIN universe_df |-> i]))

NextRun ==
    \/ StartScoring \/ ScoreNextAsset \/ IdentifyAndSave \/ EnrichOutliers
    \/ FinishRun

SpecRun == InitRun /\ [][NextRun]_vars

\* ---------------------------------------------- RateLimiter.wait_if_needed
\* Times are in tenths of a second; the caller is a single thread.
\* while request_times and request_times[0] < now - time_window: popleft()
RECURSIVE DropExpired(_, _)
DropExpired(times, t) ==
    IF times # <<>> /\ times[1] < t - time_window
    THEN DropExpired(Tail(times), t) ELSE times

\* WaitTime without the margin and one tenth short.
WaitTimeShort(times, t) == times[1] + time_window - t - 1

\* wait_time = request_times[0] + time_window - now + 0.1
WaitTime(times, t) == times[1] + time_window - t + 1

\* One call of wait_if_needed, made gap tenths after the last one returned.
\* The time appended is read again, over tenths after the time read first
\* (and after the sleep, which lasts at least the time asked for). The
\* clean-up after the sleep compares with the time read before it.
WaitIfNeeded ==
    /\ op = "wait_if_needed"
    /\ Len(admitted) < MaxCalls
    /\ \E gap \in Gaps, over \in {0, 1} :
          LET t == now + gap
              kept == DropExpired(request_times, t)
              waits == Len(kept) >= max_requests /\ WaitTime(kept, t) > 0
              woke == IF waits THEN t + WaitTime(kept, t) + over ELSE t + over
              left == IF waits THEN DropExpired(kept, t) ELSE kept
          IN  /\ request_times' = Append(left, woke)
              /\ admitted' = Append(admitted, woke)
              /\ now' = woke
    /\ UNCHANGED <<op, pc, max_requests, time_window, universe_df, cursor,
                   batch_timestamp, factor_scores, detector_calls, stored,
                   telegram_summaries, telegram_sent, binanceVars,
                   telegramVars, callVars>>

\* A limiter as constructed: no request made yet.
InitLimiter ==
    /\ op = "wait_if_needed"
    /\ pc = "idle"
    /\ max_requests \in {1, 2, 3}
    /\ time_window = 10
    /\ request_times = <<>> /\ admitted = <<>>
    /\ NoBinance
    /\ NoTelegram
    /\ NoRun
    /\ NoCall

NextLimiter == WaitIfNeeded

SpecLimiter == InitLimiter /\ [][NextLimiter]_vars

\* ------------------------------------------------------------ BinanceAdapter
\* The state of one call is a record: base_url and cache are the adapter's
\* fields, plan the outcomes of the requests still to come, urls the
\* base_url of each request made, data what the last request returned and
\* raised whether an exception is propagating.
\* _make_request: the URL is built from self.base_url; the request raises,
\* or returns the JSON the caller expects ("ok") or something else ("bad").
make_request(a) ==
    [a EXCEPT !.plan = Tail(a.plan),
              !.urls = Append(a.urls, a.base_url),
              !.raised = (Head(a.plan) = "raise"),
              !.data = Head(a.plan)]

\* The restoring assignment, made only when the request did not raise.
RestoreUnlessRaised(a, original_base) ==
    IF a.raised THEN a ELSE [a EXCEPT !.base_url = original_base]

\* finally: self.base_url = original_base
Restore(a, original_base) == [a EXCEPT !.base_url = original_base]

\* symbol in self._futures_symbols_cache
Listed(a, symbol) == symbol \in a.cache[1]

\* _is_futures_symbol up to its return statement: the cache is filled at the
\* first call, from the futures endpoint, and left empty when that fails;
\* listed says whether the exchange information names the symbol.
is_futures_symbol(a, symbol, listed) ==
    IF a.cache # None THEN a
    ELSE LET original_base == a.base_url
             r == make_request([a EXCEPT !.base_url = "futures"])
             failed == r.raised \/ r.data = "bad"
             d == Restore([r EXCEPT !.raised = failed], original_base)
         IN  [d EXCEPT !.raised = FALSE,
                       !.cache = IF failed \/ ~listed THEN Some({})
                                 ELSE Some({symbol})]

\* fetch_ticker and fetch_candles: one request at the futures or the spot
\* endpoint; the answer is read after base_url is restored.
fetch_ticker(a, symbol, listed) ==
    LET f == is_futures_symbol(a, symbol, listed)
        base == IF Listed(f, symbol) THEN "futures" ELSE "spot"
        original_base == f.base_url
        d == Restore(make_request([f EXCEPT !.base_url = base]), original_base)
    IN  IF d.raised THEN d ELSE [d EXCEPT !.raised = (d.data = "bad")]

fetch_candles(a, symbol, listed) == fetch_ticker(a, symbol, listed)

\* fetch_mark_price: the spot ticker for a symbol not listed; else the
\* premium index, with the ticker as fallback inside the switch and again
\* after it.
fetch_mark_price(a, symbol, listed) ==
    LET f == is_futures_symbol(a, symbol, listed)
        original_base == f.base_url
        r == make_request([f EXCEPT !.base_url = "futures"])
        t == fetch_ticker([r EXCEPT !.raised = FALSE], symbol, listed)
        d == Restore(t, original_base)
    IN  IF ~Listed(f, symbol) THEN fetch_ticker(f, symbol, listed)
        ELSE IF ~r.raised /\ r.data = "ok" THEN Restore(r, original_base)
        ELSE IF ~t.raised THEN d
        ELSE fetch_ticker([d EXCEPT !.raised = FALSE], symbol, listed)

\* fetch_index_price: as fetch_mark_price, with fetch_mark_price as fallback.
fetch_index_price(a, symbol, listed) ==
    LET f == is_futures_symbol(a, symbol, listed)
        original_base == f.base_url
        r == make_request([f EXCEPT !.base_url = "futures"])
        t == fetch_mark_price([r EXCEPT !.raised = FALSE], symbol, listed)
        d == Restore(t, original_base)
    IN  IF ~Listed(f, symbol) THEN fetch_ticker(f, symbol, listed)
        ELSE IF ~r.raised /\ r.data = "ok" THEN Restore(r, original_base)
        ELSE IF ~t.raised THEN d
        ELSE fetch_mark_price([d EXCEPT !.raised = FALSE], symbol, listed)

\* fetch_open_interest: None for a symbol not listed or a failed request.
fetch_open_interest(a, symbol, listed) ==
    LET f == is_futures_symbol(a, symbol, listed)
        original_base == f.base_url
        r == make_request([f EXCEPT !.base_url = "futures"])
    IN  IF ~Listed(f, symbol) THEN f
        ELSE [Restore(r, original_base) EXCEPT !.raised = FALSE]

\* fetch_funding: empty rates for a symbol not listed or a failed request.
fetch_funding(a, symbol, listed) ==
    LET f == is_futures_symbol(a, symbol, listed)
        original_base == f.base_url
        r == make_request([f EXCEPT !.base_url = "futures"])
    IN  IF ~Listed(f, symbol) THEN f
        ELSE [Restore(r, original_base) EXCEPT !.raised = FALSE]

\* The adapter's fields at the call of an operation, with the outcomes of
\* the requests to come.
Calling(plan) ==
    [base_url |-> base_url, cache |-> futures_symbols_cache, plan |-> plan,
     urls |-> <<>>, data |-> "none", raised |-> FALSE]

\* The operation name has returned or raised, leaving the call in state a.
AdapterCall(name, a) ==
    /\ op' = name
    /\ base_url' = a.base_url
    /\ futures_symbols_cache' = a.cache
    /\ entered' = Append(entered, base_url)
    /\ requested' = a.urls
    /\ raised' = a.raised
    /\ UNCHANGED <<pc, runVars, limiterVars, telegramVars, callVars>>

\* The adapter is in use and may be called again. Each operation below is
\* given as many outcomes as it can make requests: one for the exchange
\* information, one for its own request, and those of its fallbacks
\* (fetch_ticker twice in fetch_mark_price, fetch_mark_price twice in
\* fetch_index_price).
AdapterIdle == pc = "adapter" /\ Len(entered) < MaxOps

IsFuturesSymbol ==
    /\ AdapterIdle
    /\ \E plan \in Plans(1), listed \in BOOLEAN :
          AdapterCall("_is_futures_symbol",
                      is_futures_symbol(Calling(plan), Symbol, listed))

FetchCandles ==
    /\ AdapterIdle
    /\ \E plan \in Plans(2), listed \in BOOLEAN :
          AdapterCall("fetch_candles",
                      fetch_candles(Calling(plan), Symbol, listed))

FetchTicker ==
    /\ AdapterIdle
    /\ \E plan \in Plans(2), listed \in BOOLEAN :
          AdapterCall("fetch_ticker",
                      fetch_ticker(Calling(plan), Symbol, listed))

FetchMarkPrice ==
    /\ AdapterIdle
    /\ \E plan \in Plans(4), listed \in BOOLEAN :
          AdapterCall("fetch_mark_price",
                      fetch_mark_price(Calling(plan), Symbol, listed))

FetchIndexPrice ==
    /\ AdapterIdle
    /\ \E plan \in Plans(8), listed \in BOOLEAN :
          AdapterCall("fetch_index_price",
                      fetch_index_price(Calling(plan), Symbol, listed))

FetchOpenInterest ==
    /\ AdapterIdle
    /\ \E plan \in Plans(2), listed \in BOOLEAN :
          AdapterCall("fetch_open_interest",
                      fetch_open_interest(Calling(plan), Symbol, listed))

FetchFunding ==
    /\ AdapterIdle
    /\ \E plan \in Plans(2), listed \in BOOLEAN :
          AdapterCall("fetch_funding",
                      fetch_funding(Calling(plan), Symbol, listed))

\* An adapter as constructed, with the default or another base_url.
InitBinance ==
    /\ op = "BinanceAdapter"
    /\ pc = "adapter"
    /\ base_url \in {"futures", "spot", "custom"}
    /\ futures_symbols_cache = None
    /\ entered = <<>> /\ requested = <<>> /\ raised = FALSE
    /\ NoLimiter
    /\ NoTelegram
    /\ NoRun
    /\ NoCall

NextBinance ==
    \/ IsFuturesSymbol \/ FetchCandles \/ FetchTicker \/ FetchMarkPrice
    \/ FetchIndexPrice \/ FetchOpenInterest \/ FetchFunding

SpecBinance == InitBinance /\ [][NextBinance]_vars

\* -------------------------------------------------- TelegramBot.send_message
\* enabled and bot_token is not None and chat_id is not None
is_configured ==
    config.enabled /\ config.bot_token # None /\ config.chat_id # None

\* What requests.post can do: raise a RequestException, or return a response
\* with a status and a body that is empty, a JSON object, a JSON value of
\* another kind, or not JSON.
Replies ==
    {[kind |-> "exception", status |-> 0, body |-> "empty"]}
    \cup [kind : {"response"}, status : {200, 400, 500},
          body : {"empty", "object", "array", "text"}]

\* send_message(text, parse_mode) when the requests to come end as rs: the
\* value returned and the parse_mode of each request made. response.json()
\* raises on a body that is not JSON, and .get on a JSON value that is no
\* object; only the RequestException among these is caught.
RECURSIVE send_message(_, _)
send_message(mode, rs) ==
    LET reply == Head(rs)
        retry == send_message("None", Tail(rs))
    IN  IF ~is_configured THEN [ret |-> "False", requests |-> <<>>]
        ELSE IF reply.kind = "exception"
        THEN [ret |-> "False", requests |-> <<mode>>]
        ELSE IF reply.status = 200
        THEN [ret |-> "True", requests |-> <<mode>>]
        ELSE IF reply.body = "text"
        THEN [ret |-> IF json_error_caught THEN "False" ELSE "raised",
              requests |-> <<mode>>]
        ELSE IF reply.body = "array"
        THEN [ret |-> "raised", requests |-> <<mode>>]
        ELSE IF reply.status = 400 /\ mode = "Markdown"
        THEN [ret |-> retry.ret, requests |-> <<mode>> \o retry.requests]
        ELSE [ret |-> "False", requests |-> <<mode>>]

\* One call of send_message; of the two outcomes drawn, those of requests
\* not made are dropped.
SendMessage ==
    /\ pc = "telegram"
    /\ \E mode \in {"Markdown", "HTML", "None"}, rs \in [1..2 -> Replies] :
          LET r == send_message(mode, rs)
          IN  /\ parse_mode' = mode
              /\ replies' = SubSeq(rs, 1, Len(r.requests))
              /\ http_requests' = r.requests
              /\ returned' = r.ret
    /\ op' = "send_message"
    /\ UNCHANGED <<pc, config, json_error_caught, runVars, limiterVars,
                   binanceVars, callVars>>

\* A bot as constructed from any configuration, with either behaviour of
\* the installed requests library.
InitTelegram ==
    /\ op = "TelegramBot"
    /\ pc = "telegram"
    /\ config \in [enabled : BOOLEAN, bot_token : {None, Some("token")},
                    chat_id : {None, Some("chat")}]
    /\ json_error_caught \in BOOLEAN
    /\ parse_mode = "none" /\ replies = <<>> /\ http_requests = <<>>
    /\ returned = "none"
    /\ NoLimiter
    /\ NoBinance
    /\ NoRun
    /\ NoCall

NextTelegram == SendMessage

SpecTelegram == InitTelegram /\ [][NextTelegram]_vars

\* the returned dicts, in order
Returned == [i \in DOMAIN results |-> heap[results[i]]]

\* ---------------------------------------------------------------- claims
Done == pc = "done" /\ op = "identify_outliers"
RanMethod == method \in {"iqr", "zscore"}
InScore(i) == input[i].composite_score
ScoredIdx == {i \in DOMAIN input : InScore(i) # None}
NScored == Cardinality(ScoredIdx)
Flagged(d) == d.is_outlier = "True"

\* Ts are t records with the highest scores, Bs are b records with the
\* lowest scores (any choice among equal scores), and they do not overlap.
TopBottom(Ts, Bs, t, b) ==
    /\ Cardinality(Ts) = t
    /\ Cardinality(Bs) = b
    /\ Ts \cap Bs = {}
    /\ \A i \in Ts : \A j \in ScoredIdx \ Ts : Val(InScore(i)) >= Val(InScore(j))
    /\ \A i \in Bs : \A j \in ScoredIdx \ Bs : Val(InScore(i)) <= Val(InScore(j))

C2_Shortlist ==
    (Done /\ NScored >= 1) => \E i \in DOMAIN Returned : Flagged(Returned[i])

\* C3 as stated: the result has the length of the input, its i-th record is
\* the i-th input record with its other fields unchanged, and every record
\* carries is_outlier and outlier_type.
C3_Annotated ==
    Done => /\ Len(results) = Len(input)
            /\ \A i \in DOMAIN Returned :
                  /\ Returned[i].symbol = input[i].symbol
                  /\ Returned[i].composite_score = input[i].composite_score
                  /\ Returned[i].is_outlier # "absent"
                  /\ Returned[i].outlier_type # "absent"

\* C4 as stated: a record with a null composite score has is_outlier = false
\* and no outlier type in the result, on every call.
C4_NullNeverFlagged ==
    Done => \A i \in DOMAIN Returned :
               InScore(i) = None => /\ Returned[i].is_outlier = "False"
                                    /\ Returned[i].outlier_type = "None"

\* C7 as stated: an empty batch returns an empty list, and an all-null batch
\* returns every record with is_outlier = false, whatever top_n / bottom_n.
C7_EmptyAndAllNull ==
    Done => /\ Len(input) = 0 => results = <<>>
            /\ (Len(input) > 0 /\ NScored = 0) =>
                  /\ Len(results) = Len(input)
                  /\ \A i \in DOMAIN Returned : Returned[i].is_outlier = "False"

\* the non-null scores of the input, in batch order
InputScores == composite_scores(input, [i \in DOMAIN input |-> i])

\* C5: a call on a batch with a non-null score takes the IQR path exactly
\* when use_iqr is true and there are at least 4 non-null scores, and the
\* Z-score path otherwise; on the IQR path, before forced inclusion, a scored
\* record is flagged top iff its score is strictly above Q3 + 2*IQR, flagged
\* bottom iff strictly below Q1 - 2*IQR, and unflagged otherwise.
C5_IqrStep ==
    (Done /\ NScored >= 1) =>
       /\ method = "iqr" <=> (args.use_iqr /\ NScored >= 4)
       /\ method # "iqr" => method = "zscore"
       /\ method = "iqr" =>
            LET q1 == quantile4(InputScores, 1)
                q3 == quantile4(InputScores, 3)
                above(i) == 4 * Val(InScore(i)) > q3 + 2 * (q3 - q1)
                below(i) == 4 * Val(InScore(i)) < q1 - 2 * (q3 - q1)
            IN  \A i \in ScoredIdx :
                   /\ (Flagged(stat[i]) /\ stat[i].outlier_type = "top") <=> above(i)
                   /\ (Flagged(stat[i]) /\ stat[i].outlier_type = "bottom") <=> below(i)
                   /\ (~above(i) /\ ~below(i)) =>
                         /\ stat[i].is_outlier = "False"
                         /\ stat[i].outlier_type = "None"

\* C5 witness: on the IQR path one score far above the others is flagged top
\* by the IQR step while the others stay unflagged.
C5_Witness ==
    /\ Done /\ method = "iqr"
    /\ \E i \in ScoredIdx :
          /\ Flagged(stat[i]) /\ stat[i].outlier_type = "top"
          /\ \A j \in ScoredIdx \ {i} :
                ~Flagged(stat[j]) /\ Val(InScore(j)) < Val(InScore(i))

C9_InputUnchanged ==
    Done => /\ Len(scores) = Len(input)
            /\ \A i \in DOMAIN scores : scores[i] = i /\ heap[scores[i]] = input[i]

\* C9 witness: a call that flagged a record of the result whose input dict
\* carried no flag.
C9_Witness ==
    /\ Done /\ RanMethod
    /\ \E i \in DOMAIN Returned :
          Flagged(Returned[i]) /\ input[i].is_outlier = "absent"

ScoreDone == pc = "done" /\ op \in {"calculate_composite_score", "score_asset"}
WeightSum == factor_weights.momentum + factor_weights.mean_reversion
             + factor_weights.carry + factor_weights.volume

\* C10 as stated: the composite score is a number within [-(sum of the four
\* weights), +(sum of the four weights)] for any factor inputs and the
\* non-negative weights of the configuration (the score is held in units of
\* 1/200000, the weights in hundredths).
C10_Bounded ==
    ScoreDone => /\ ~IsNaN(composite)
                 /\ -(2000 * WeightSum) <= Val(composite)
                 /\ Val(composite) <= 2000 * WeightSum

\* ------------------------------------------------- null and NaN factor values
\* the (family, key) pairs calculate_composite_score reads
ConsumedFields ==
    {<<"momentum", "momentum_24h">>, <<"momentum", "macd_signal">>,
     <<"mean_reversion", "mean_reversion_zscore">>,
     <<"mean_reversion", "bb_position">>,
     <<"carry", "carry_funding_annualized">>,
     <<"volume", "volume_anomaly_zscore">>,
     <<"volume", "volume_price_divergence">>}

FamilyDict(f, fam) == IF fam = "volume" THEN f.volume.dict ELSE f[fam]

\* the field is null, or absent from its dict
NullOrAbsent(f, fk) ==
    LET d == FamilyDict(f, fk[1])
    IN  fk[2] \notin DOMAIN d \/ d[fk[2]] = None

\* the dict d with d[key] = v
DictWith(d, key, v) ==
    [k \in DOMAIN d \cup {key} |-> IF k = key THEN v ELSE d[k]]

\* the factor dicts with the field set to v
WithField(f, fk, v) ==
    IF fk[1] = "volume"
    THEN [f EXCEPT !.volume.dict = DictWith(f.volume.dict, fk[2], v)]
    ELSE [f EXCEPT ![fk[1]] = DictWith(f[fk[1]], fk[2], v)]

\* C11: calculate_composite_score returns a value for every input; for each
\* field it reads, the score with the field null or absent equals the score
\* with that field 0; and without a volume dict, or with an empty one, the
\* volume family contributes 0 (the score is that of a zero volume weight).
C11_NullAsZero ==
    ScoreDone =>
       /\ composite # None
       /\ \A fk \in ConsumedFields :
             (NullOrAbsent(factors, fk) /\ (fk[1] = "volume" => factors.volume.given))
             => composite = composite_score(WithField(factors, fk, Some(0)),
                                            factor_weights)
       /\ ~VolumeGiven(factors.volume)
             => composite = composite_score(factors,
                                            [factor_weights EXCEPT !.volume = 0])

\* C11 witness: a score computed from dicts with a null field, an absent
\* field and a non-zero field, that is not 0.
C11_Witness ==
    /\ ScoreDone /\ op = "calculate_composite_score"
    /\ factors.momentum = [k \in {"momentum_24h", "macd_signal"} |->
                              IF k = "momentum_24h" THEN None ELSE Some(1000)]
    /\ "bb_position" \notin DOMAIN factors.mean_reversion
    /\ factors.volume.given /\ factors.volume.dict = <<>>
    /\ composite # Some(0) /\ ~IsNaN(composite)

\* C12 as stated: calculate_carry returns no NaN field, and the composite
\* score of the factor dicts the pipeline builds for an asset is a finite
\* number, also when the stored funding rate, mark price or index price is
\* missing or NaN.
C12_NoNaN ==
    (pc = "done" /\ op = "score_asset") =>
       /\ \A k \in DOMAIN factors.carry : ~IsNaN(factors.carry[k])
       /\ ~IsNaN(composite)

\* C18 as stated: in every returned record, on every path, outlier_type is
\* top or bottom if and only if is_outlier is true.
C18_TypeIffFlagged ==
    Done => \A i \in DOMAIN Returned :
               Returned[i].outlier_type \in {"top", "bottom"}
                  <=> Returned[i].is_outlier = "True"

\* C19 as stated: on the Z-score path with a positive threshold, when the
\* batch has a single non-null score or all its non-null scores are equal,
\* every Z is taken as 0 (so that no scored record gets a type from the sign
\* of Z), the statistical step flags no record, and the call returns a
\* record for every input record.
C19_DegenerateBatch ==
    (Done /\ method = "zscore" /\ AllEqual(InputScores)
          /\ z_threshold(args.z_score_threshold) > 0)
    => /\ Len(results) = Len(input)
       /\ \A i \in ScoredIdx : /\ stat[i].is_outlier = "False"
                                /\ stat[i].outlier_type = "None"

\* --------------------------------------------------------- factor methods
FactorDone(name) == pc = "done" /\ op = name

\* C20 as stated: for each period p of periods, volume_momentum_{p}h is the
\* percentage change from the volume of the candle p positions before the
\* latest candle to the latest candle's volume, and null when that earlier
\* volume is 0 (periods 1 and 4, on a series that holds that candle).
C20_VolumeMomentum ==
    FactorDone("calculate_volume_factors") =>
       \A q \in Range(params.periods) :
          (q \in {1, 4} /\ Len(candles) >= q + 1
             /\ Len(candles) >= MaxOf(Range(params.periods)
                                       \cup {params.lookback_periods}))
          => LET latest  == candles[Len(candles)].volume
                 earlier == candles[Len(candles) - q].volume
                 value == ret[PeriodKey("volume_momentum_", q)]
             IN  IF earlier = 0 THEN value = None
                 ELSE value = Some(((latest * 100000) \div earlier) - 100000)

\* Claim helpers for calculate_rsi: the prices the call was given, and whether
\* the prices up to index i never fell and rose at least once.
RsiPrices == Closes(candles)
NoLossSomeGain(prices, i) ==
    /\ \A j \in 2..i : prices[j] >= prices[j - 1]
    /\ \E j \in 2..i : prices[j] > prices[j - 1]
StrictlyIncreasing(prices) == \A j \in 2..Len(prices) : prices[j] > prices[j - 1]

\* C15: every defined value calculate_rsi returns lies in [0, 100]; the value
\* is exactly 100 where no price up to it fell and at least one rose (zero
\* average loss, positive average gain); so a strictly increasing series that
\* spans the window (period + 1 prices) has RSI = 100 at its last element.
C15_RsiRange ==
    FactorDone("calculate_rsi") =>
       /\ \A i \in DOMAIN ret :
             ~IsNaN(ret[i]) =>
                /\ Val(ret[i]) >= 0 /\ Val(ret[i]) <= 100000
                /\ NoLossSomeGain(RsiPrices, i) => ret[i] = Some(100000)
       /\ (Len(RsiPrices) >= params.period + 1 /\ StrictlyIncreasing(RsiPrices))
             => ret[Len(ret)] = Some(100000)

\* C15 witness: a strictly increasing series of three prices, spanning the
\* window, has been given an RSI of 100 at its last element.
C15_Witness ==
    /\ FactorDone("calculate_rsi")
    /\ Len(RsiPrices) = 3 /\ Len(RsiPrices) >= params.period + 1
    /\ StrictlyIncreasing(RsiPrices)
    /\ ret[Len(ret)] = Some(100000)

\* Claim helpers for the EMA crossover: the signal the claim gives to a pair
\* of latest EMA values, either of which may be undefined (NaN).
ClaimedSignal(fast_last, slow_last) ==
    IF IsNaN(fast_last) \/ IsNaN(slow_last) THEN 0
    ELSE IF Val(fast_last) > Val(slow_last) THEN 1
    ELSE IF Val(fast_last) < Val(slow_last) THEN -1
    ELSE 0

\* the direct call: the returned signal is the claimed one for the latest of
\* the returned fast and slow EMA arrays, and 0 below the slow period
CrossoverSignalRight ==
    FactorDone("calculate_ema_crossover") =>
       /\ Len(candles) < params.slow_period => ret.signal = 0
       /\ Len(candles) >= 1 =>
             ret.signal = ClaimedSignal(FromEnd(ret.fast_ema, 1),
                                        FromEnd(ret.slow_ema, 1))

\* the signal calculate_ema_crossover gives the closes calculate_momentum got
CrossoverOfMomentum == calculate_ema_crossover(Closes(candles), 9, 21).signal

\* C14 as stated: calculate_ema_crossover returns +1, -1 or 0 by the order
\* of the latest fast and slow EMA (0 when equal or undefined), and
\* calculate_momentum reports that same value as ema_signal.
C14_AsStated ==
    /\ CrossoverSignalRight
    /\ FactorDone("calculate_momentum") =>
          ret["ema_signal"] = Some(1000 * CrossoverOfMomentum)

\* C14 amended: the same for calculate_ema_crossover; calculate_momentum
\* reports that value as ema_signal when the series has at least
\* max(periods) candles, and reports null for a shorter series.
C14_EmaSignal ==
    /\ CrossoverSignalRight
    /\ FactorDone("calculate_momentum") =>
          ret["ema_signal"] =
             IF Len(candles) >= MaxOf(Range(params.periods))
             THEN Some(1000 * CrossoverOfMomentum)
             ELSE None

\* C14 witness: calculate_momentum has reported a bearish crossover of a
\* series of at least 24 candles.
C14_Witness ==
    /\ FactorDone("calculate_momentum")
    /\ Len(candles) >= 24
    /\ CrossoverOfMomentum = -1
    /\ ret["ema_signal"] = Some(-1000)

\* Claim helpers for insufficient data: the candles a method needs for
\* returns over its periods (one more than the longest period), and whether
\* the returned dictionary holds only nulls.
ReturnWindow(periods) == MaxOf(Range(periods)) + 1
AllValuesNull(d) == \A k \in DOMAIN d : d[k] = None

\* C13 as stated: a factor method given fewer candles than its window (N + 1
\* for returns over N periods, N for a moving average over N) returns its
\* dictionary with every value null (calculate_momentum,
\* calculate_oi_factors and calculate_volume_factors).
C13_InsufficientData ==
    /\ (FactorDone("calculate_momentum")
          /\ Len(candles) < ReturnWindow(params.periods))
       => AllValuesNull(ret)
    /\ (FactorDone("calculate_oi_factors")
          /\ Len(candles) < ReturnWindow(params.periods))
       => AllValuesNull(ret)
    /\ (FactorDone("calculate_volume_factors")
          /\ Len(candles) < MaxOf({ReturnWindow(params.periods),
                                   params.lookback_periods}))
       => AllValuesNull(ret)

\* Claim helpers for the score records of a run: the fields the factor
\* dictionaries and the record are documented to have, and the records the
\* run handed to the detector and to storage.
CarryKeys == {"carry_funding_annualized", "carry_basis"}
DocumentedFields ==
    MomentumKeys \cup MeanReversionKeys \cup VolatilityKeys \cup CarryKeys
    \cup VolumeKeys \cup OiKeys \cup BtcKeys
    \cup {"composite_score", "is_outlier", "outlier_type"}
HandedToDetector ==
    UNION {Range(detector_calls[c].batch) : c \in DOMAIN detector_calls}
HandedToStorage == IF stored = <<>> THEN {} ELSE Range(factor_scores)

\* C16 as stated: every score record the pipeline hands to
\* identify_outliers and to storage contains every documented field.
C16_AllFieldsPresent ==
    op = "run_hourly" =>
       \A record \in HandedToDetector \cup HandedToStorage :
          DocumentedFields \subseteq DOMAIN record

\* the assets of the universe the loop scores, by symbol
ScoredSymbols == {i \in DOMAIN universe_df : universe_df[i].outcome = "scored"}
SymbolsOf(batch) == {batch[i]["symbol"] : i \in DOMAIN batch}

\* C17: in a run of run_hourly, identify_outliers is invoked at most once,
\* only once the loop has passed every asset of the universe, on the records
\* of all the assets scored, each carrying the batch timestamp; and the
\* list has the same records after the call as it was called on.
C17_DetectorOnceOnFullBatch ==
    op = "run_hourly" =>
       /\ Len(detector_calls) <= 1
       /\ \A c \in DOMAIN detector_calls :
             LET call == detector_calls[c]
             IN  /\ call.cursor = Len(universe_df) + 1
                 /\ SymbolsOf(call.batch) = ScoredSymbols
                 /\ Len(call.batch) = Cardinality(ScoredSymbols)
                 /\ \A i \in DOMAIN call.batch :
                       Some(call.batch[i]["timestamp"]) = batch_timestamp
                 /\ Len(factor_scores) = Len(call.batch)
                 /\ SymbolsOf(factor_scores) = SymbolsOf(call.batch)

\* C17 witness: the detector has run on a batch of three records built at
\* different times, from a universe in which one asset was skipped.
C17_Witness ==
    /\ op = "run_hourly"
    /\ Len(detector_calls) = 1
    /\ Len(detector_calls[1].batch) = 3
    /\ Len(universe_df) = 4
    /\ \E i \in DOMAIN universe_df : universe_df[i].outcome \in SkipOutcomes
    /\ now > Val(batch_timestamp) + 1

\* Claim helper: the percentage return from the close q candles before the
\* latest one to the latest close, in thousandths of a percent.
ReturnOver(cs, q) ==
    ((cs[Len(cs)].close * 100000) \div cs[Len(cs) - q].close) - 100000

\* C21 as stated: for each period p of periods, momentum_{p}h is the
\* percentage return over p candles when the series has at least p + 1
\* candles, and null when it has fewer.
C21_AsStated ==
    FactorDone("calculate_momentum") =>
       \A q \in Range(params.periods) :
          LET key == PeriodKey("momentum_", q)
          IN  /\ key \in DOMAIN ret
              /\ ret[key] = IF Len(candles) >= q + 1
                            THEN Some(ReturnOver(candles, q)) ELSE None

\* C21 amended: momentum_{p}h is that return when the series has at least
\* max(periods) candles and at least p + 1; otherwise it is null, or, for
\* a series below max(periods) and p not 1, 4 or 24, not in the dictionary.
C21_MomentumReturn ==
    FactorDone("calculate_momentum") =>
       \A q \in Range(params.periods) :
          LET key == PeriodKey("momentum_", q)
              n == Len(candles)
          IN  IF n >= MaxOf(Range(params.periods))
              THEN /\ key \in DOMAIN ret
                   /\ ret[key] = IF n >= q + 1
                                 THEN Some(ReturnOver(candles, q)) ELSE None
              ELSE IF q \in {1, 4, 24}
              THEN key \in DOMAIN ret /\ ret[key] = None
              ELSE key \notin DOMAIN ret

\* C21 witness: a series of 25 or more candles has been given a negative
\* return over 4 candles and a positive return over 24.
C21_Witness ==
    /\ FactorDone("calculate_momentum")
    /\ Len(candles) >= 25
    /\ params.periods = <<1, 4, 24>>
    /\ ret["momentum_4h"] # None /\ Val(ret["momentum_4h"]) < 0
    /\ ret["momentum_24h"] # None /\ Val(ret["momentum_24h"]) > 0

\* Claim helpers for the MACD signal: the latest MACD and signal line of the
\* closes calculate_momentum was given, and the sign the claim asks for.
MacdOfMomentum == calculate_macd(Closes(candles), 12, 26, 9)
MacdDefined == Len(candles) >= 26
ClaimedMacdSignal ==
    IF ~MacdDefined THEN 0
    ELSE Sign(Val(FromEnd(MacdOfMomentum.macd_line, 1))
              - Val(FromEnd(MacdOfMomentum.signal_line, 1)))

\* C22 as stated: macd_signal is the sign of (latest MACD - latest signal
\* line): +1 above, -1 below, neither when the two are equal; always one of
\* -1, 0, 1 (for a series calculate_momentum does not turn away as short).
C22_MacdSignal ==
    (FactorDone("calculate_momentum")
       /\ Len(candles) >= MaxOf(Range(params.periods)))
    => /\ ret["macd_signal"] \in {Some(-1000), Some(0), Some(1000)}
       /\ ret["macd_signal"] = Some(1000 * ClaimedMacdSignal)

\* Claim helper: an open interest value that is a positive number.
PositiveOi(v) == ~IsNaN(v) /\ Val(v) > 0

\* C23 as stated: oi_change_{p}h is null when the open_interest field is
\* absent, when the series has fewer than p + 1 candles, or when the latest
\* open interest or the one p candles earlier is non-positive or NaN;
\* otherwise it is the percentage change between the two (for a series
\* calculate_oi_factors does not turn away as short).
C23_OiChange ==
    (FactorDone("calculate_oi_factors")
       /\ Len(candles) >= MaxOf(Range(params.periods)))
    => \A q \in Range(params.periods) :
          LET value == GetOrNone(ret, PeriodKey("oi_change_", q))
              n == Len(candles)
          IN  IF ~params.has_open_interest \/ n < q + 1 THEN value = None
              ELSE LET latest == candles[n].open_interest
                       earlier == candles[n - q].open_interest
                   IN  IF PositiveOi(latest) /\ PositiveOi(earlier)
                       THEN value = Some(((Val(latest) * 100000)
                                            \div Val(earlier)) - 100000)
                       ELSE value = None

\* Claim helpers for the BTC correlation: the closes of the two series the
\* claim aligns (the last lookback closes of each, cut to the shorter), and
\* their returns.
AlignedLen ==
    Min(params.lookback_periods, Min(Len(candles), Len(params.btc_candles)))
AlignedAssetReturns == Returns(SliceTail(Closes(candles), AlignedLen))
AlignedBtcReturns == Returns(SliceTail(Closes(params.btc_candles), AlignedLen))

\* C24 as stated: btc_correlation and btc_beta are both null exactly when
\* the aligned closes leave fewer than 2 return observations, and otherwise
\* both non-null, btc_beta being 1.0 when the BTC returns have no variance
\* and btc_correlation 0.0 when either series of returns has none.
C24_BtcCorrelation ==
    FactorDone("calculate_btc_correlation") =>
       IF AlignedLen - 1 < 2
       THEN ret["btc_correlation"] = None /\ ret["btc_beta"] = None
       ELSE /\ ret["btc_correlation"] # None /\ ret["btc_beta"] # None
            /\ AllEqual(AlignedBtcReturns) => ret["btc_beta"] = Some(1000)
            /\ (AllEqual(AlignedBtcReturns) \/ AllEqual(AlignedAssetReturns))
                  => ret["btc_correlation"] = Some(0)

\* Claim helper: the closes of the series are all equal, and so are its
\* volumes.
FlatSeries(cs) ==
    \A i, j \in DOMAIN cs : cs[i].close = cs[j].close /\ cs[i].volume = cs[j].volume

\* C25 as stated, for calculate_volume_factors: on a series of sufficient
\* length whose closes and volumes are all equal, volume_anomaly_zscore is 0
\* and volume_price_divergence is 0.
C25_FlatSeries ==
    (FactorDone("calculate_volume_factors")
       /\ FlatSeries(candles)
       /\ params.lookback_periods >= 3
       /\ Len(candles) >= MaxOf(Range(params.periods)
                                 \cup {params.lookback_periods}) + 1)
    => /\ ret["volume_anomaly_zscore"] = Some(0)
       /\ ret["volume_price_divergence"] = Some(0)

\* a run of run_hourly has ended: it returned, or it raised
RunEnded == op = "run_hourly" /\ pc \in {"finished", "failed"}

\* C26 as stated: a run that produced at least one score record (and in
\* which no adapter, storage or Telegram call fails) goes on through the
\* enrichment of outliers to the summary and cleanup steps and returns
\* without raising.
C26_RunCompletes ==
    (op = "run_hourly" /\ detector_calls # <<>>) => pc # "failed"

AdmittedWithin(t) ==
    {i \in DOMAIN admitted : admitted[i] >= t /\ admitted[i] <= t + time_window}

\* C28: with max_requests >= 1 and a single caller, at most max_requests
\* calls of wait_if_needed are admitted within any interval of time_window
\* (an interval holding the most admissions can be taken to begin at one).
C28_RateLimit ==
    op = "wait_if_needed" =>
       \A i \in DOMAIN admitted :
          Cardinality(AdmittedWithin(admitted[i])) <= max_requests

\* C28 witness: a call found the limiter full, slept and was admitted just
\* after the oldest request left the window; the deque still holds that
\* request.
C28_Witness ==
    /\ op = "wait_if_needed"
    /\ max_requests = 2
    /\ Len(request_times) = max_requests + 1
    /\ request_times[3] = request_times[1] + time_window + 1

\* C29: after any BinanceAdapter operation that switches the endpoint
\* returns or raises, nested fallback calls included, base_url equals the
\* value it had before the operation.
C29_BaseUrlRestored ==
    (pc = "adapter" /\ entered # <<>>) => base_url = entered[Len(entered)]

\* C29 witness: fetch_index_price on an adapter configured with another
\* base_url made all its eight requests at the futures endpoint, through
\* both fallbacks and theirs, and raised.
C29_Witness ==
    /\ pc = "adapter" /\ op = "fetch_index_price"
    /\ entered = <<"custom">>
    /\ requested = [i \in 1..8 |-> "futures"]
    /\ raised
    /\ base_url = "custom"

\* C30: send_message always ends with a boolean after at most two requests:
\* False without a request when the bot is not configured; one retry, as
\* plain text, on a 400 response under Markdown; False without a retry on
\* any other response that is not 200 and on a request exception.
C30_SendMessage ==
    (pc = "telegram" /\ op = "send_message") =>
       /\ returned \in {"True", "False"}
       /\ Len(http_requests) <= 2
       /\ ~is_configured => returned = "False" /\ http_requests = <<>>
       /\ is_configured =>
             IF replies[1].kind = "response" /\ replies[1].status = 400
                /\ parse_mode = "Markdown"
             THEN http_requests = <<"Markdown", "None">>
             ELSE /\ Len(http_requests) = 1
                  /\ (replies[1].kind = "exception" \/ replies[1].status # 200)
                        => returned = "False"

====
